---- MODULE Spec2Model ----
(***************************************************************************)
(* Salesforce Search Helper: the Page Agent (content script), the          *)
(* Privileged Broker (background service worker) and the pure helpers the  *)
(* two share, as state machines.                                           *)
(*                                                                         *)
(*   SpecPage    the content script of src/content.js (second revision in  *)
(*               the file, lines 991-2255): initialisation, row            *)
(*               processing, quick-find filtering, response handling.      *)
(*   SpecReinit  the same content script while the host page navigates in  *)
(*               place and the location-changed signal re-initialises it.  *)
(*   SpecSamePage                                                          *)
(*               the same content script re-initialised by the             *)
(*               location-changed signal while the page stays the same.    *)
(*   SpecWaits   one call of waitForElement of src/content.js and one call  *)
(*               of waitForAllRows of src/script.js with the timers they   *)
(*               set; a timer that is due fires.                           *)
(*   SpecModal   one call of openBulkUpdateModal of src/content.js with    *)
(*               the messages it sends and the HTTP calls it makes.        *)
(*   SpecBroker  the service worker of src/unnamed/part_001: one request   *)
(*               at a time, one step per task of the event loop (a cookie  *)
(*               callback or an HTTP response with the microtasks that     *)
(*               follow it).  The only state requests share,               *)
(*               lastSuccessfulCookieDomain, is read in the task that      *)
(*               wrote it.                                                 *)
(*   SpecConcurrent                                                        *)
(*               the same service worker with the requests of two tabs     *)
(*               under way at once, their tasks interleaved in any order.  *)
(*   SpecDomains getAllPossibleDomains / getMySalesforceDomain applied to  *)
(*               a bounded set of origins.                                 *)
(*                                                                         *)
(* Text the code searches inside (cell text, queries, host names, paths)   *)
(* is a sequence of tokens: single characters for cell text and queries,   *)
(* words and separators for host names and paths.  Text the code only      *)
(* builds and compares is a TLA+ string.                                   *)
(***************************************************************************)
EXTENDS Integers, Sequences, FiniteSets, Bags, TLC

(***************************************************************************)
(* Token-sequence helpers (String.prototype.includes / indexOf / trim /    *)
(* toLowerCase / endsWith on sequences of tokens).                         *)
(***************************************************************************)

\* s.includes(sub): sub occurs in s as a contiguous run.
Includes(s, sub) ==
  \E i \in 0..(Len(s) - Len(sub)) :
     \A j \in 1..Len(sub) : s[i + j] = sub[j]

\* s.indexOf(sub), 1-based; 0 when absent.
IndexOf(s, sub) ==
  IF Includes(s, sub)
  THEN CHOOSE i \in 1..(Len(s) - Len(sub) + 1) :
         /\ \A j \in 1..Len(sub) : s[i + j - 1] = sub[j]
         /\ \A k \in 1..(i - 1) : \E j \in 1..Len(sub) : s[k + j - 1] # sub[j]
  ELSE 0

\* s.endsWith(suf)
EndsWith(s, suf) ==
  /\ Len(suf) <= Len(s)
  /\ \A j \in 1..Len(suf) : s[Len(s) - Len(suf) + j] = suf[j]

\* s.replace(pat, rep) with a string pattern: the first occurrence only.
ReplaceFirst(s, pat, rep) ==
  LET i == IndexOf(s, pat)
  IN  IF i = 0 THEN s
      ELSE SubSeq(s, 1, i - 1) \o rep \o SubSeq(s, i + Len(pat), Len(s))

UpperToLower ==
  [c \in {"A","B","C","D","E","F","G","H","I","J","K","L","M",
          "N","O","P","Q","R","S","T","U","V","W","X","Y","Z"} |->
     CASE c = "A" -> "a" [] c = "B" -> "b" [] c = "C" -> "c" [] c = "D" -> "d"
       [] c = "E" -> "e" [] c = "F" -> "f" [] c = "G" -> "g" [] c = "H" -> "h"
       [] c = "I" -> "i" [] c = "J" -> "j" [] c = "K" -> "k" [] c = "L" -> "l"
       [] c = "M" -> "m" [] c = "N" -> "n" [] c = "O" -> "o" [] c = "P" -> "p"
       [] c = "Q" -> "q" [] c = "R" -> "r" [] c = "S" -> "s" [] c = "T" -> "t"
       [] c = "U" -> "u" [] c = "V" -> "v" [] c = "W" -> "w" [] c = "X" -> "x"
       [] c = "Y" -> "y" [] c = "Z" -> "z"]

\* String.prototype.toLowerCase, character by character.
ToLowerCase(s) ==
  [i \in 1..Len(s) |-> IF s[i] \in DOMAIN UpperToLower THEN UpperToLower[s[i]] ELSE s[i]]

RECURSIVE TrimLeft(_)
TrimLeft(s) == IF s # <<>> /\ Head(s) = " " THEN TrimLeft(Tail(s)) ELSE s

RECURSIVE TrimRight(_)
TrimRight(s) ==
  IF s # <<>> /\ s[Len(s)] = " " THEN TrimRight(SubSeq(s, 1, Len(s) - 1)) ELSE s

\* String.prototype.trim
Trim(s) == TrimRight(TrimLeft(s))


\* Array.prototype.join("") over a run of string tokens.
RECURSIVE ConcatTokens(_)
ConcatTokens(toks) ==
  IF toks = <<>> THEN "" ELSE Head(toks) \o ConcatTokens(Tail(toks))

(***************************************************************************)
(* Bounds of the model.                                                    *)
(***************************************************************************)
NRows == 3            \* row elements the host page ever creates
MaxInits == 1         \* initialisations signalled, scheduled or running at one time
MaxNavigations == 1   \* in-place URL changes of the host page
MaxPending == 2       \* processPicklistRows calls suspended at one time
MaxSent == 3
MaxStrips == 2        \* applications of the suffix stripping to one identifier          \* cap of the per-row request counter

(***************************************************************************)
(* State.  Each specification moves the variables of one part and leaves   *)
(* the other parts at rest.                                                *)
(***************************************************************************)
\* The origin under test of the domain helpers.
VARIABLES
  orgLabel,        \* the My Domain name of the origin under test
  sandboxLabel,    \* its sandbox name; <<>> for a production org
  hostSuffix,      \* the rest of the host name
  candidates,      \* result of getAllPossibleDomains; <<>> before the call
  apiDomain,       \* result of getMySalesforceDomain; <<>> before the call
  developerNames   \* a field identifier and the names stripping gave from it

domainVars ==
  <<orgLabel, sandboxLabel, hostSuffix, candidates, apiDomain, developerNames>>

\* The Privileged Broker.
VARIABLES
  cookies,                     \* the browser's cookie store
  lastSuccessfulCookieDomain,  \* global.lastSuccessfulCookieDomain; <<>> is null
  proc,                        \* the request being resolved
  handlers                     \* the requests under way at once, per sender

brokerVars == <<cookies, lastSuccessfulCookieDomain, proc, handlers>>

\* The Page Agent.
VARIABLES
  pathname,        \* window.location.pathname, as tokens
  tableBody,       \* document.querySelector("table tbody") finds an element
  rows,            \* the <tr> elements: attachment, dataset, style.display
  searchInput,     \* input[type=search] of the quick-find container
  qfValue,         \* .value of that input
  lastObjectName,  \* let lastObjectName
  signals,         \* "location-changed" notifications not yet handled
  timers,          \* pending setTimeout(initPicklistProcessing, 500)
  inits,           \* suspended initPicklistProcessing bodies (a bag)
  navigations,     \* URL changes so far
  observers,       \* MutationObservers registered on the table body
  pprs,            \* processPicklistRows calls suspended at await (a bag)
  inFlight,        \* fetchPicklistValues requests awaiting their callback (a bag)
  sentCount,       \* per row: sendMessage calls made for it
  modal            \* the openBulkUpdateModal call under way

contentVars ==
  <<pathname, tableBody, rows, searchInput, qfValue, lastObjectName,
    signals, timers, inits, navigations,
    observers, pprs, inFlight, sentCount>>

\* The waiting helpers of the content script.
VARIABLES
  elementWait,     \* one call of waitForElement(selector) and its caller
  pollWait,        \* one call of waitForElement(selector, callback)
  rowsWait         \* one call of waitForAllRows(callback)

waitVars == <<elementWait, pollWait, rowsWait>>

pageVars == <<contentVars, modal, waitVars>>

vars == <<domainVars, brokerVars, pageVars>>

(***************************************************************************)
(* DOMAIN HELPERS (src/unnamed/part_001, lines 1-89)                       *)
(*                                                                         *)
(* An origin is a sequence of tokens: the protocol, "//", then the host    *)
(* name as words separated by the one-character tokens "." and "-".        *)
(***************************************************************************)

Protocol == "https:"
LightningSuffix == <<"lightning", ".", "force", ".", "com">>
SetupSuffix == <<"salesforce", "-", "setup", ".", "com">>
MySalesforceSuffix == <<"my", ".", "salesforce", ".", "com">>

\* `${protocol}//${host}`
Url(host) == <<Protocol, "//">> \o host

\* new URL(origin).hostname
Hostname(origin) == SubSeq(origin, 3, Len(origin))

\* The longest run of tokens of h from position i on, none of them stop.
RECURSIVE RunUntil(_, _, _)
RunUntil(h, i, stop) ==
  IF i > Len(h) \/ h[i] = stop THEN <<>>
  ELSE <<h[i]>> \o RunUntil(h, i + 1, stop)

\* /([^-]+)--([^.]+)/ matches h starting at token i.
SandboxMatchAt(h, i) ==
  LET g1 == RunUntil(h, i, "-")
      j == i + Len(g1)
  IN  /\ g1 # <<>>
      /\ j + 2 <= Len(h)
      /\ h[j] = "-" /\ h[j + 1] = "-"
      /\ h[j + 2] # "."

\* hostname.match(/([^-]+)--([^.]+)/): groups 1 and 2 of the leftmost match.
\* (src/unnamed/part_001:12)
SandboxMatch(h) ==
  LET hits == {i \in 1..Len(h) : SandboxMatchAt(h, i)}
  IN  IF hits = {} THEN [found |-> FALSE, org |-> <<>>, sandbox |-> <<>>, rest |-> <<>>]
      ELSE LET i == CHOOSE k \in hits : \A m \in hits : k <= m
               g1 == RunUntil(h, i, "-")
               g2 == RunUntil(h, i + Len(g1) + 2, ".")
           IN  [found |-> TRUE, org |-> g1, sandbox |-> g2,
                rest |-> SubSeq(h, i + Len(g1) + 2 + Len(g2) + 1, Len(h))]

\* hostname.match(/([^-]+)--([^.]+)\.(.*)/): group 2 must be followed by ".".
\* (src/unnamed/part_001:62)
SandboxMatchWithRest(h) ==
  LET hits == {i \in 1..Len(h) :
                 /\ SandboxMatchAt(h, i)
                 /\ LET g1 == RunUntil(h, i, "-")
                        g2 == RunUntil(h, i + Len(g1) + 2, ".")
                    IN  i + Len(g1) + 2 + Len(g2) <= Len(h)}
  IN  IF hits = {} THEN [found |-> FALSE, org |-> <<>>, sandbox |-> <<>>, rest |-> <<>>]
      ELSE LET i == CHOOSE k \in hits : \A m \in hits : k <= m
               g1 == RunUntil(h, i, "-")
               g2 == RunUntil(h, i + Len(g1) + 2, ".")
           IN  [found |-> TRUE, org |-> g1, sandbox |-> g2,
                rest |-> SubSeq(h, i + Len(g1) + 2 + Len(g2) + 1, Len(h))]

\* Host labels (cs\d+|cs|na\d+|gs0|eu\d+) accepts, among the labels of the model.
InstanceLabels == {"cs", "cs12", "na44", "gs0", "eu5"}

\* hostname.match(/\.(cs\d+|cs|na\d+|gs0|eu\d+)\./i): group 1 of the leftmost
\* match, <<>> without one.   (src/unnamed/part_001:8-9)
InstanceMatch(h) ==
  LET hits == {i \in 1..(Len(h) - 2) :
                 h[i] = "." /\ h[i + 1] \in InstanceLabels /\ h[i + 2] = "."}
  IN  IF hits = {} THEN <<>>
      ELSE <<h[(CHOOSE k \in hits : \A m \in hits : k <= m) + 1]>>

\* getMySalesforceDomain(origin)   (src/unnamed/part_001:54-89)
getMySalesforceDomain(origin) ==
  LET hostname == Hostname(origin)
      sandboxMatch == SandboxMatchWithRest(hostname)
  IN  IF sandboxMatch.found /\ Includes(sandboxMatch.rest, LightningSuffix)
      THEN Url(sandboxMatch.org \o <<"-", "-">> \o sandboxMatch.sandbox
               \o <<".">> \o MySalesforceSuffix)
      ELSE IF Includes(hostname, LightningSuffix)
           THEN ReplaceFirst(origin, LightningSuffix, MySalesforceSuffix)
           ELSE IF Includes(hostname, SetupSuffix)
                THEN ReplaceFirst(origin, SetupSuffix, MySalesforceSuffix)
                ELSE origin

\* [...new Set(domains)]: first occurrences, in order.
RECURSIVE Unique(_)
Unique(domains) ==
  IF domains = <<>> THEN <<>>
  ELSE LET front == Unique(SubSeq(domains, 1, Len(domains) - 1))
           last == domains[Len(domains)]
       IN  IF \E i \in 1..Len(front) : front[i] = last THEN front
           ELSE Append(front, last)

\* The generic domains pushed at src/unnamed/part_001:41-48.
GenericDomains ==
  << Url(MySalesforceSuffix),
     Url(<<"login", ".", "salesforce", ".", "com">>),
     Url(<<"salesforce", ".", "com">>),
     Url(<<"cloudforce", ".", "com">>),
     Url(<<"sandbox", ".">> \o MySalesforceSuffix),
     Url(<<"test", ".", "salesforce", ".", "com">>) >>

\* The domains pushed for a sandbox host.   (src/unnamed/part_001:25-38)
SandboxDomains(orgName, sandboxName, instance) ==
  << Url(orgName \o <<"-", "-">> \o sandboxName \o <<".">> \o MySalesforceSuffix),
     Url(orgName \o <<"-", "-">> \o sandboxName \o <<".", "sandbox", ".">>
           \o MySalesforceSuffix) >>
  \o (IF instance # <<>>
      THEN << Url(orgName \o <<"-", "-">> \o sandboxName \o <<".">> \o instance
                    \o <<".">> \o MySalesforceSuffix) >>
      ELSE <<>>)
  \o << Url(<<"test", ".", "salesforce", ".", "com">>),
        Url(sandboxName \o <<".">> \o orgName \o <<".">> \o MySalesforceSuffix) >>

\* getAllPossibleDomains(origin)   (src/unnamed/part_001:1-52)
getAllPossibleDomains(origin) ==
  LET hostname == Hostname(origin)
      domainParts == RunUntil(hostname, 1, ".")
      instance == InstanceMatch(hostname)
      sandboxMatch == SandboxMatch(hostname)
      orgName == IF sandboxMatch.found THEN sandboxMatch.org ELSE domainParts
      sandboxName == IF sandboxMatch.found THEN sandboxMatch.sandbox ELSE <<>>
  IN  Unique(<<getMySalesforceDomain(origin), origin>>
             \o (IF sandboxName # <<>>
                 THEN SandboxDomains(orgName, sandboxName, instance) ELSE <<>>)
             \o GenericDomains)

\* My Domain names, sandbox names and host suffixes of the origins under test.
OrgLabels == { <<"acme">>, <<"globex">>, <<"my", "-", "org">>, <<"a", "-", "b", "-", "c">> }
SandboxLabels == { <<>>, <<"uat">>, <<"dev2">> }
HostSuffixes ==
  { LightningSuffix,
    <<"sandbox", ".">> \o LightningSuffix,
    <<"cs12", ".">> \o LightningSuffix,
    MySalesforceSuffix,
    <<"my", ".">> \o SetupSuffix }

\* The origin of a page of org, sandbox (if any) and host suffix.
OriginOf(org, sandbox, suffix) ==
  Url(org \o (IF sandbox = <<>> THEN <<>> ELSE <<"-", "-">> \o sandbox)
          \o <<".">> \o suffix)

\* The origin under test.
Origin == OriginOf(orgLabel, sandboxLabel, hostSuffix)

\* The reserved suffix of custom identifiers.
CustomSuffix == <<"_","_","c">>

\* fieldApiName.replace(/__c$/, ""): the identifier with a trailing "__c"
\* removed.   (src/unnamed/part_001:202, 594; src/content.js:2218-2221)
stripSuffix(x) ==
  IF EndsWith(x, CustomSuffix) THEN SubSeq(x, 1, Len(x) - Len(CustomSuffix)) ELSE x

\* Field identifiers under test: a custom field, a field of a managed
\* package (namespace ns) whose own name is c, a standard field, a name
\* with the suffix inside, the bare suffix.
FieldApiNames ==
  { <<"R","a","t","e","_","_","c">>,
    <<"n","s","_","_","c","_","_","c">>,
    <<"N","a","m","e">>,
    <<"a","_","_","c","x">>,
    <<"_","_","c">> }

DomainsInit ==
  /\ orgLabel \in OrgLabels
  /\ sandboxLabel \in SandboxLabels
  /\ hostSuffix \in HostSuffixes
  /\ candidates = <<>>
  /\ apiDomain = <<>>
  /\ \E x \in FieldApiNames : developerNames = <<x>>

\* The domain helpers are not in use.
DomainsAtRest ==
  /\ orgLabel = <<"acme">>
  /\ sandboxLabel = <<>>
  /\ hostSuffix = LightningSuffix
  /\ candidates = <<>>
  /\ apiDomain = <<>>
  /\ developerNames = << <<"N","a","m","e">> >>

\* getSessionCookie builds the candidate list of the origin.
\* (src/unnamed/part_001:96)
BuildCandidates ==
  /\ candidates = <<>>
  /\ candidates' = getAllPossibleDomains(Origin)
  /\ UNCHANGED <<orgLabel, sandboxLabel, hostSuffix, apiDomain, developerNames,
               brokerVars, pageVars>>

\* A request handler converts the origin to its API domain.
\* (src/unnamed/part_001:170)
ConvertOrigin ==
  /\ apiDomain = <<>>
  /\ apiDomain' = getMySalesforceDomain(Origin)
  /\ UNCHANGED <<orgLabel, sandboxLabel, hostSuffix, candidates, developerNames,
               brokerVars, pageVars>>

\* A handler strips the suffix from the name it was handed.
\* (src/unnamed/part_001:202, 594)
StripName ==
  /\ Len(developerNames) <= MaxStrips
  /\ developerNames' =
       Append(developerNames, stripSuffix(developerNames[Len(developerNames)]))
  /\ UNCHANGED <<orgLabel, sandboxLabel, hostSuffix, candidates, apiDomain,
                 brokerVars, pageVars>>

DomainsNext == BuildCandidates \/ ConvertOrigin \/ StripName

(***************************************************************************)
(* PRIVILEGED BROKER (src/unnamed/part_001, lines 91-747)                  *)
(*                                                                         *)
(* One step is one task of the service worker: the callback of a cookie    *)
(* lookup or the arrival of an HTTP response, run up to the next call      *)
(* that waits for the browser or the network.  Code between two such       *)
(* calls, the return of an async function to its awaiting caller           *)
(* included, runs in that task.  The broker resolves one request at a      *)
(* time here; global.lastSuccessfulCookieDomain lives across requests.     *)
(***************************************************************************)

MaxModalFields == 2   \* custom fields the describe reply lists for the modal
MaxFields == 2        \* field ids in the updates of one bulkUpdateFields request
batchSize == 20       \* const batchSize = 20

OriginA == Url(<<"acme", "-", "-", "uat", ".">> \o LightningSuffix)
OriginB == Url(<<"globex", ".">> \o LightningSuffix)
BrokerOrigins == {OriginA, OriginB}

\* const domainsToTry = getAllPossibleDomains(origin), for the origins of
\* the requests.   (src/unnamed/part_001:96)
DomainsToTry == [origin \in BrokerOrigins |-> getAllPossibleDomains(origin)]

NoCookies == <<>>
CookieA == [name |-> "sid", domain |-> <<"acme", "-", "-", "uat", ".">> \o MySalesforceSuffix,
            value |-> "sidA"]
CookieB == [name |-> "sid", domain |-> <<"globex", ".">> \o LightningSuffix,
            value |-> "sidB"]
CookieOther == [name |-> "sid", domain |-> <<"other", ".", "my", ".", "site", ".", "com">>,
                value |-> "sidX"]
CookieForce == [name |-> "sid", domain |-> <<"force", ".", "com">>, value |-> "sidF"]
CookieTest == [name |-> "sid", domain |-> <<"test", ".", "salesforce", ".", "com">>,
               value |-> "sidT"]
CookieLang == [name |-> "lang", domain |-> <<"globex", ".">> \o MySalesforceSuffix,
               value |-> "en"]

\* The cookie stores a behaviour starts with.
CookieStores ==
  { NoCookies,
    <<CookieLang>>,
    <<CookieLang, CookieA>>,
    <<CookieB, CookieA>>,
    <<CookieTest, CookieB>>,
    <<CookieOther>>,
    <<CookieOther, CookieForce>> }

\* chrome.cookies.get({url, name: "sid"}): the value of the sid cookie stored
\* for the host of url, "" when there is none.   (src/unnamed/part_001:111-115)
CookieValue(store, url) ==
  LET hits == {i \in 1..Len(store) :
                 store[i].name = "sid" /\ store[i].domain = Hostname(url)}
  IN  IF hits = {} THEN ""
      ELSE store[CHOOSE i \in hits : \A j \in hits : i <= j].value

\* allCookies.filter(c => c.name === "sid")   (src/unnamed/part_001:132)
RECURSIVE SidCookies(_)
SidCookies(store) ==
  IF store = <<>> THEN <<>>
  ELSE (IF Head(store).name = "sid" THEN <<Head(store)>> ELSE <<>>)
       \o SidCookies(Tail(store))

\* A fallback that takes the first sid cookie whatever its domain.
FallbackFirst(sidCookies, origin) == sidCookies[1]

\* The cookie the enumerate-all fallback settles on: the first whose domain
\* contains or is contained in the origin's host name, else the first.
\* (src/unnamed/part_001:135-150)
FallbackCookie(sidCookies, origin) ==
  LET originDomain == Hostname(origin)
      hits == {i \in 1..Len(sidCookies) :
                 \/ Includes(originDomain, sidCookies[i].domain)
                 \/ Includes(sidCookies[i].domain, originDomain)}
  IN  IF hits # {} THEN sidCookies[CHOOSE i \in hits : \A j \in hits : i <= j]
      ELSE sidCookies[1]

(* ----------------------------- payloads ------------------------------- *)

Industry == <<"I","n","d","u","s","t","r","y">>
Banking == <<"B","a","n","k","i","n","g">>
Retail == <<"R","e","t","a","i","l">>
NoValues == [present |-> FALSE, labels |-> <<>>]

\* Bodies the describe endpoint can answer (data of response.json()).
DescribeIndustry ==
  [hasFields |-> TRUE,
   fields |-> << [name |-> <<"N","a","m","e">>, picklistValues |-> NoValues],
                 [name |-> Industry,
                  picklistValues |-> [present |-> TRUE, labels |-> <<Banking, Retail>>]] >>]
DescribeUpperCase ==
  [hasFields |-> TRUE,
   fields |-> << [name |-> <<"I","N","D","U","S","T","R","Y">>,
                  picklistValues |-> [present |-> TRUE,
                                      labels |-> <<Retail, <<>>, Banking>>]] >>]
DescribeEmptyValues ==
  [hasFields |-> TRUE,
   fields |-> << [name |-> Industry,
                  picklistValues |-> [present |-> TRUE, labels |-> <<>>]] >>]
DescribeNoValues ==
  [hasFields |-> TRUE,
   fields |-> << [name |-> Industry, picklistValues |-> NoValues] >>]
DescribeOtherField ==
  [hasFields |-> TRUE,
   fields |-> << [name |-> <<"N","a","m","e">>, picklistValues |-> NoValues] >>]
DescribeMalformed == [hasFields |-> FALSE, fields |-> <<>>]

DescribePayloads ==
  { DescribeIndustry, DescribeUpperCase, DescribeEmptyValues, DescribeNoValues,
    DescribeOtherField, DescribeMalformed }

\* The links of records[0].Metadata.valueSet.valueSetDefinition.value a body
\* of the tooling query can lack: the records key, a first record, or a key
\* further down.
MissingLinks ==
  {"records", "records[0]", "Metadata", "valueSet", "valueSetDefinition", "value"}

\* No tooling body has been read.
NoTooling == [chain |-> FALSE, missing |-> "", value |-> <<>>]

\* Bodies the tooling query for a custom field can answer: value is
\* records[0].Metadata.valueSet.valueSetDefinition.value when every link is
\* there, missing the first link that is not.
ToolingPayloads ==
  { [chain |-> TRUE, missing |-> "", value |-> <<Banking, Retail>>],
    [chain |-> TRUE, missing |-> "", value |-> <<>>] }
  \cup { [chain |-> FALSE, missing |-> l, value |-> <<>>] : l \in MissingLinks }

\* labels.map(v => (v.label || "").toLowerCase()).join(", ") with another
\* separator.
RECURSIVE JoinLabelsComma(_)
JoinLabelsComma(labels) ==
  IF labels = <<>> THEN <<>>
  ELSE IF Len(labels) = 1 THEN ToLowerCase(labels[1])
       ELSE ToLowerCase(labels[1]) \o <<",">> \o JoinLabelsComma(Tail(labels))

\* labels.map(v => (v.label || "").toLowerCase()).join(", ")
\* (src/unnamed/part_001:198, 224)
RECURSIVE JoinLabels(_)
JoinLabels(labels) ==
  IF labels = <<>> THEN <<>>
  ELSE IF Len(labels) = 1 THEN ToLowerCase(labels[1])
       ELSE ToLowerCase(labels[1]) \o <<",", " ">> \o JoinLabels(Tail(labels))

\* data.fields.find(f => f.name.toLowerCase() === fieldApiName.toLowerCase()),
\* then field?.picklistValues?.map(...).join(", ") || "".
\* (src/unnamed/part_001:193-198)
StandardPicklistText(data, fieldApiName) ==
  LET hits == {i \in 1..Len(data.fields) :
                 ToLowerCase(data.fields[i].name) = ToLowerCase(fieldApiName)}
  IN  IF hits = {} THEN <<>>
      ELSE LET field == data.fields[CHOOSE i \in hits : \A j \in hits : i <= j]
           IN  IF field.picklistValues.present
               THEN JoinLabels(field.picklistValues.labels) ELSE <<>>

\* data.records?.[0]?.Metadata?.valueSet?.valueSetDefinition?.value || [],
\* mapped and joined.   (src/unnamed/part_001:223-224)
CustomPicklistText(data) ==
  JoinLabels(IF data.chain THEN data.value ELSE <<>>)

\* Field records GET .../CustomField/{id} can answer (fieldData.Metadata).
NoMetadata == [hasMetadata |-> FALSE, type |-> "", valueSet |-> FALSE]
FieldDatas ==
  { NoMetadata,
    [hasMetadata |-> TRUE, type |-> "Picklist", valueSet |-> TRUE],
    [hasMetadata |-> TRUE, type |-> "Text", valueSet |-> FALSE],
    [hasMetadata |-> TRUE, type |-> "Lookup", valueSet |-> FALSE] }

\* Records the supplementary CustomField query can answer (record.Metadata).
ExtraRecords ==
  { NoMetadata,
    [hasMetadata |-> TRUE, type |-> "Text", valueSet |-> FALSE] }

\* fieldData after the supplementary record was merged in: Metadata is
\* created when missing and gets the keys it lacks.  (src/unnamed/part_001:430-455)
MergeMetadata(fieldData, record) ==
  IF ~record.hasMetadata THEN fieldData
  ELSE IF ~fieldData.hasMetadata THEN record
       ELSE [hasMetadata |-> TRUE,
             type |-> IF fieldData.type = "" THEN record.type ELSE fieldData.type,
             valueSet |-> fieldData.valueSet \/ record.valueSet]

\* String.prototype.toLowerCase on the type names of the model.
LowerTypeName(t) ==
  CASE t = "Picklist" -> "picklist"
    [] t = "MultiselectPicklist" -> "multiselectpicklist"
    [] t = "Lookup" -> "lookup"
    [] t = "MasterDetail" -> "masterdetail"
    [] t = "Text" -> "text"
    [] OTHER -> t

\* The condition of the direct update.   (src/unnamed/part_001:492-495)
UsesDirectUpdate(metadata) ==
  LET fieldType == LowerTypeName(metadata.type)
      hasValueSet == metadata.valueSet
  IN  fieldType \in {"picklist", "multipicklist"} \/ hasValueSet

(* ------------------------- request processes -------------------------- *)

Kinds ==
  { "getSessionCookie", "fetchPicklistValues", "fetchObjectDescribe",
    "fetchCustomObjectApiName", "getCustomFieldId", "bulkUpdateFields" }

\* The kinds the content script sends: getObjectId has no branch in the
\* listener.   (src/content.js:1989)
SentKinds == Kinds \cup {"getObjectId"}

\* What sendResponse is called with, or what updateFieldMetadata returns.
Reply(success, error) ==
  [success |-> success, error |-> error, picklistText |-> <<>>,
   cookieValue |-> "", successCount |-> 0, failureCount |-> 0, enriched |-> {},
   formattedErrorMessage |-> <<>>]

IdleProc ==
  [pc |-> "idle", kind |-> "", origin |-> OriginA,
   isStandard |-> FALSE,        \* message.isStandard
   customObject |-> FALSE,      \* objectApiName.endsWith("__c")
   customObjectId |-> FALSE,    \* a customObjectId is known
   nFields |-> 0,               \* Object.keys(updates).length
   edited |-> {},               \* the keys of updates with a changed property
   changed |-> {},              \* the properties updates[fieldId] carries then
   site |-> "",                 \* the call the process waits on
   cand |-> 0,                  \* index into domainsToTry
   sessionId |-> "", apiOrigin |-> <<>>,
   field |-> 0,                 \* position in Object.keys(updates)
   fieldData |-> NoMetadata,
   results |-> <<>>,            \* const results = []
   patches |-> <<>>,            \* PATCH calls issued, with the outcome
   calls |-> <<>>,              \* outbound HTTP calls issued, by call site
   met |-> {},                  \* call sites where a failure was met
   describe |-> DescribeMalformed,  \* the describe body a picklist request got
   tooling |-> NoTooling,       \* the tooling body a picklist request got
   batch |-> 0, nBatches |-> 0, batchNames |-> FALSE,
   enriched |-> {},             \* batches whose records are in allRecords
   replies |-> <<>>]            \* calls of sendResponse

\* sendResponse(reply).
Done(p, reply) == [p EXCEPT !.pc = "done", !.replies = Append(@, reply)]

\* A call of getSessionCookie: the first chrome.cookies.get is under way.
\* (src/unnamed/part_001:96-113)
StartResolution(p, site) == [p EXCEPT !.pc = "cookie", !.site = site, !.cand = 1]

\* updateFieldMetadata -> getFieldMetadata for the i-th key of updates.
\* (src/unnamed/part_001:706, 479, 383)
StartField(p, i) ==
  StartResolution([p EXCEPT !.field = i, !.fieldData = NoMetadata], "main")

\* failed.map((f, index) => `${index + 1}. ${f.fieldName}: ${f.error}`): the
\* lines of formattedErrorMessage.   (src/unnamed/part_001:718-720)
ErrorLines(failed) ==
  [k \in 1..Len(failed) |->
     [index |-> k, fieldId |-> failed[k].fieldId, error |-> failed[k].error]]

\* A reply whose error text names the first failed field only.
BulkReplyOfFirstLine(results, totalFields) ==
  LET succeeded == SelectSeq(results, LAMBDA r : r.success)
      failed == SelectSeq(results, LAMBDA r : ~r.success)
  IN  IF Len(failed) > 0
      THEN [Reply(Len(failed) = 0, "fields failed to update.") EXCEPT
              !.successCount = Len(succeeded),
              !.failureCount = Len(failed),
              !.formattedErrorMessage = ErrorLines(<<failed[1]>>)]
      ELSE Reply(TRUE, "")

\* The reply of processUpdates.   (src/unnamed/part_001:713-733)
BulkReplyOf(results, totalFields) ==
  LET succeeded == SelectSeq(results, LAMBDA r : r.success)
      failed == SelectSeq(results, LAMBDA r : ~r.success)
  IN  IF Len(failed) > 0
      THEN [Reply(Len(failed) = 0, "fields failed to update.") EXCEPT
              !.successCount = Len(succeeded),
              !.failureCount = Len(failed),
              !.formattedErrorMessage = ErrorLines(failed)]
      ELSE Reply(TRUE, "")

\* A loop that gives up at the first field that failed.
AfterFieldStopOnFailure(p, result) ==
  LET q == [p EXCEPT !.results = Append(@, [fieldId |-> p.field,
                                             success |-> result.success,
                                             error |-> result.error])]
  IN  IF q.field < q.nFields /\ result.success THEN StartField(q, q.field + 1)
      ELSE Done(q, BulkReplyOf(q.results, q.nFields))

\* One turn of the for loop of processUpdates is over: push the result, go
\* on to the next key or reply.   (src/unnamed/part_001:702-733)
AfterField(p, result) ==
  LET q == [p EXCEPT !.results = Append(@, [fieldId |-> p.field,
                                             success |-> result.success,
                                             error |-> result.error])]
  IN  IF q.field < q.nFields THEN StartField(q, q.field + 1)
      ELSE Done(q, BulkReplyOf(q.results, q.nFields))

\* A listener that replies in the handler and again when its promise settles.
FinishTwice(p, result) ==
  IF p.kind = "bulkUpdateFields" THEN AfterField(p, result)
  ELSE Done(Done(p, result), result)

\* The async function of the request returns result: the listener's
\* .then(sendResponse), or the next turn of the bulk loop.
\* (src/unnamed/part_001:665-745)
Finish(p, result) ==
  IF p.kind = "bulkUpdateFields" THEN AfterField(p, result) ELSE Done(p, result)

\* A guard that lets every request through.
HasSessionAlways(sessionId) == TRUE

\* if (!sessionId) return {success: false, ...}   (src/unnamed/part_001:166)
HasSession(sessionId) == sessionId # ""

\* global.lastSuccessfulCookieDomain || getMySalesforceDomain(origin)
\* (src/unnamed/part_001:170)
ApiOrigin(lastDomain, origin) ==
  IF lastDomain # <<>> THEN lastDomain ELSE getMySalesforceDomain(origin)

\* updates[fieldId] for the i-th key: the save handler makes an entry for
\* the field of every textarea and fills it only where the value differs
\* from the original.   (src/content.js:1863-1881)
UpdatedData(p, i) == IF i \in p.edited THEN p.changed ELSE {}

\* The body of the PATCH for a field.   (src/unnamed/part_001:495-504, 539-555)
PatchBody(metadata, changed) ==
  IF UsesDirectUpdate(metadata)
  THEN [fullMetadata |-> FALSE, properties |-> changed]
  ELSE [fullMetadata |-> TRUE, properties |-> changed]

\* fetch(url, ...) is called.
Fetch(p, target) ==
  [p EXCEPT !.pc = "http", !.site = target, !.calls = Append(@, target),
            !.patches = IF target = "patch"
                        THEN Append(@, [field |-> p.field,
                                        body |-> PatchBody(p.fieldData, UpdatedData(p, p.field)),
                                        accepted |-> FALSE])
                        ELSE @]

\* The HTTP call a request makes once it holds a session id.
TargetOf(p) ==
  CASE p.kind = "fetchPicklistValues" ->
         IF p.isStandard THEN "describe" ELSE "toolingPicklist"
    [] p.kind = "fetchObjectDescribe" -> "objDescribe"
    [] p.kind = "fetchCustomObjectApiName" -> "objName"
    [] p.kind = "getCustomFieldId" -> "fieldId"
    [] OTHER -> IF p.site = "patch" THEN "patch" ELSE "fieldGet"

\* The code after `await getSessionCookie(origin, storeId)`.
\* (src/unnamed/part_001:164-178, 235-247, 346-358, 383-394, 506-514, 595-608, 666-667)
Resume(p, sessionId, lastDomain) ==
  IF p.kind = "getSessionCookie"
  THEN Done(p, [Reply(TRUE, "") EXCEPT !.cookieValue = sessionId])
  ELSE IF ~HasSession(sessionId)
       THEN Finish(p, Reply(FALSE, "No session cookie found."))
       ELSE Fetch([p EXCEPT !.sessionId = sessionId,
                            !.apiOrigin = ApiOrigin(lastDomain, p.origin)],
                  TargetOf(p))

\* The enrichment loop of fetchObjectDescribe from batch b on: a batch of a
\* custom object without custom field names is skipped.
\* (src/unnamed/part_001:270-298, 321-338)
NextBatch(p, b) ==
  IF b > p.nBatches \/ (p.customObject /\ ~p.batchNames)
  THEN Done(p, [Reply(TRUE, "") EXCEPT !.enriched = p.enriched])
  ELSE Fetch([p EXCEPT !.batch = b], "enrich")

\* The statuses fetch and the body parse can end with at a call site: a 2xx
\* with a body that parses, a non-2xx, a network error, a 2xx with a body
\* that does not parse.
Statuses(site) ==
  IF site = "patch" THEN {"ok", "http", "net"} ELSE {"ok", "http", "net", "bad"}

\* The bodies a call site can get with a status.
Bodies(site, status) ==
  IF status # "ok" THEN {FALSE}
  ELSE CASE site = "describe" -> DescribePayloads
         [] site = "toolingPicklist" -> ToolingPayloads
         [] site = "objDescribe" ->
              {[hasFields |-> TRUE, count |-> n, customNames |-> c] :
                 n \in {0, 1, batchSize + 1}, c \in BOOLEAN}
              \cup {[hasFields |-> FALSE, count |-> 0, customNames |-> FALSE]}
         [] site = "fieldGet" -> FieldDatas
         [] site = "fieldExtra" -> ExtraRecords
         [] site \in {"objName", "fieldId", "objectId"} -> BOOLEAN
         [] OTHER -> {TRUE}

\* The message of the error a failed call ends in.
ErrorOf(status) ==
  CASE status = "http" -> "API error"
    [] status = "net" -> "Failed to fetch"
    [] OTHER -> "Unexpected token"

\* A failure was met at the call site the process waits on.
Met(p) == [p EXCEPT !.met = @ \cup {p.site}]

\* The custom branch reading the chain without optional chaining: a missing
\* link is a TypeError the catch turns into a failure reply.
CustomReplyStrict(data) ==
  IF data.chain
  THEN [Reply(TRUE, "") EXCEPT !.picklistText = JoinLabels(data.value)]
  ELSE Reply(FALSE, "TypeError")

\* The reply of the custom branch for a body that parsed.
\* (src/unnamed/part_001:222-226)
CustomReply(data) ==
  [Reply(TRUE, "") EXCEPT !.picklistText = CustomPicklistText(data)]

\* fetchPicklistValues without its try/catch: an error ends the handler
\* with no reply.
PicklistResponseUncaught(p, status, body) ==
  IF status # "ok" THEN [Met(p) EXCEPT !.pc = "done"]
  ELSE IF p.site = "toolingPicklist"
       THEN Done([p EXCEPT !.tooling = body],
                 CustomReply(body))
       ELSE IF ~body.hasFields
            THEN [Met(p) EXCEPT !.pc = "done"]
            ELSE Done([p EXCEPT !.describe = body],
                      [Reply(TRUE, "") EXCEPT
                         !.picklistText = StandardPicklistText(body, Industry)])

\* fetchPicklistValues after its fetch.   (src/unnamed/part_001:178-231)
PicklistResponse(p, status, body) ==
  IF status # "ok" THEN Done(Met(p), Reply(FALSE, ErrorOf(status)))
  ELSE IF p.site = "toolingPicklist"
       THEN Done([p EXCEPT !.tooling = body],
                 CustomReply(body))
       ELSE IF ~body.hasFields
            THEN Done(Met(p), Reply(FALSE, "TypeError"))
            ELSE Done([p EXCEPT !.describe = body],
                      [Reply(TRUE, "") EXCEPT
                         !.picklistText = StandardPicklistText(body, Industry)])

\* fetchObjectDescribe after the describe call and after each enrichment
\* batch.   (src/unnamed/part_001:247-342)
DescribeResponse(p, status, body) ==
  IF p.site = "objDescribe"
  THEN IF status # "ok" THEN Done(Met(p), Reply(FALSE, ErrorOf(status)))
       ELSE IF ~body.hasFields THEN Done(Met(p), Reply(FALSE, "TypeError"))
            ELSE NextBatch([p EXCEPT
                              !.nBatches = (body.count + batchSize - 1) \div batchSize,
                              !.batchNames = body.customNames], 1)
  ELSE CASE status = "ok" ->
              NextBatch([p EXCEPT !.enriched = @ \cup {p.batch}], p.batch + 1)
         [] status = "http" -> NextBatch(Met(p), p.batch + 1)
         [] OTHER -> Done([Met(p) EXCEPT !.enriched = {}], Reply(TRUE, ""))

\* fetchCustomObjectApiName after its fetch.   (src/unnamed/part_001:358-379)
ObjectNameResponse(p, status, body) ==
  IF status # "ok" THEN Done(Met(p), Reply(FALSE, ErrorOf(status)))
  ELSE IF body THEN Done(p, Reply(TRUE, ""))
       ELSE Done(p, Reply(FALSE, "No records found"))

\* getCustomFieldId after the field query and after the object query.
\* (src/unnamed/part_001:608-653)
FieldIdResponse(p, status, body) ==
  IF p.site = "fieldId"
  THEN IF status # "ok" THEN Done(Met(p), Reply(FALSE, ErrorOf(status)))
       ELSE IF body THEN Done(p, Reply(TRUE, ""))
            ELSE IF ~p.customObjectId /\ p.customObject
                 THEN Fetch(p, "objectId")
                 ELSE Done(p, Reply(FALSE, "Field not found."))
  ELSE CASE status = "ok" /\ body ->
              StartResolution([p EXCEPT !.customObjectId = TRUE], "main")
         [] status = "ok" -> Done(p, Reply(FALSE, "Field not found."))
         [] status = "http" -> Done(Met(p), Reply(FALSE, "Field not found."))
         [] OTHER -> Done(Met(p), Reply(FALSE, ErrorOf(status)))

\* getFieldMetadata and updateFieldMetadata after each of their calls.
\* (src/unnamed/part_001:394-475, 481-489, 514-590)
UpdateResponse(p, status, body) ==
  CASE p.site = "fieldGet" ->
         IF status # "ok" THEN Finish(Met(p), Reply(FALSE, ErrorOf(status)))
         ELSE Fetch([p EXCEPT !.fieldData = body], "fieldExtra")
    [] p.site = "fieldExtra" ->
         LET q == IF status = "ok"
                  THEN [p EXCEPT !.fieldData = MergeMetadata(@, body)]
                  ELSE Met(p)
         IN  IF ~q.fieldData.hasMetadata
             THEN Finish(q, Reply(FALSE, "does not have Metadata field available"))
             ELSE StartResolution(q, "patch")
    [] OTHER ->
         IF status = "ok"
         THEN Finish([p EXCEPT !.patches[Len(p.patches)].accepted = TRUE],
                     Reply(TRUE, ""))
         ELSE Finish(Met(p), Reply(FALSE, ErrorOf(status)))

\* The process after the response of the call it waits on.
OnResponse(p, status, body) ==
  CASE p.site \in {"describe", "toolingPicklist"} -> PicklistResponse(p, status, body)
    [] p.site \in {"objDescribe", "enrich"} -> DescribeResponse(p, status, body)
    [] p.site = "objName" -> ObjectNameResponse(p, status, body)
    [] p.site \in {"fieldId", "objectId"} -> FieldIdResponse(p, status, body)
    [] OTHER -> UpdateResponse(p, status, body)

\* The tabs whose content scripts send requests at the same time.
Tabs == {"tabA", "tabB"}

BrokerInit ==
  /\ cookies \in CookieStores
  /\ lastSuccessfulCookieDomain = <<>>
  /\ proc = IdleProc
  /\ handlers = [h \in Tabs |-> IdleProc]

\* The Broker has no request and an empty cookie store.
BrokerAtRest ==
  /\ cookies = NoCookies
  /\ lastSuccessfulCookieDomain = <<>>
  /\ proc = IdleProc
  /\ handlers = [h \in Tabs |-> IdleProc]

\* The keys of updates that carry a property when the user saves n fields:
\* every field was edited, or only the description of the first was.
\* (src/content.js:1859-1889)
SavedEdits(n, changed) ==
  IF n = 0 THEN {{}}
  ELSE {1..n} \cup (IF changed = {"Description"} THEN {{1}} ELSE {})

\* The messages the content script sends: the kind and the fields the
\* handler of that kind reads.   (src/unnamed/part_001:661-747)
Requests ==
  { m \in [kind : SentKinds, origin : BrokerOrigins, isStandard : BOOLEAN,
           customObject : BOOLEAN, customObjectId : BOOLEAN,
           nFields : 0..MaxFields, edited : SUBSET (1..MaxFields),
           changed : {{}, {"Description"}, {"Description", "InlineHelpText"}}] :
      /\ m.isStandard => m.kind = "fetchPicklistValues"
      /\ m.customObject => m.kind \in {"fetchObjectDescribe", "getCustomFieldId"}
      /\ m.customObjectId => m.kind = "getCustomFieldId"
      /\ m.nFields > 0 => m.kind = "bulkUpdateFields"
      /\ m.changed # {} <=> m.nFields > 0
      /\ m.edited \in SavedEdits(m.nFields, m.changed) }

\* chrome.runtime.onMessage: a request arrives.  For a kind without a
\* branch the listener returns undefined: sendResponse is never called and
\* the port closes.   (src/unnamed/part_001:661-747)
Receive(m) ==
  /\ proc.pc \in {"idle", "done", "closed"}
  /\ LET p == [IdleProc EXCEPT !.kind = m.kind, !.origin = m.origin,
                               !.isStandard = m.isStandard,
                               !.customObject = m.customObject,
                               !.customObjectId = m.customObjectId,
                               !.nFields = m.nFields, !.edited = m.edited,
                               !.changed = m.changed]
     IN  proc' = IF m.kind \notin Kinds THEN [p EXCEPT !.pc = "closed"]
                 ELSE IF m.kind # "bulkUpdateFields" THEN StartResolution(p, "main")
                 ELSE IF m.nFields = 0 THEN Done(p, BulkReplyOf(<<>>, 0))
                      ELSE StartField(p, 1)
  /\ UNCHANGED <<cookies, lastSuccessfulCookieDomain, handlers, pageVars, domainVars>>

\* A candidate loop without the return at the first token: every candidate
\* is asked and the last token found is used.
CookieLookupLast ==
  /\ proc.pc = "cookie"
  /\ LET domainsToTry == DomainsToTry[proc.origin]
         domain == domainsToTry[proc.cand]
         value == CookieValue(cookies, domain)
         found == IF value # "" THEN value ELSE proc.sessionId
         last == IF value # "" THEN domain ELSE lastSuccessfulCookieDomain
     IN  /\ lastSuccessfulCookieDomain' = last
         /\ proc' = IF proc.cand < Len(domainsToTry)
                    THEN [proc EXCEPT !.cand = @ + 1, !.sessionId = found]
                    ELSE IF found # "" THEN Resume(proc, found, last)
                         ELSE [proc EXCEPT !.pc = "cookieAll"]
  /\ UNCHANGED <<cookies, handlers, pageVars, domainVars>>

\* The callback of chrome.cookies.get for the candidate at hand.
\* (src/unnamed/part_001:100-123)
CookieLookup ==
  /\ proc.pc = "cookie"
  /\ LET domainsToTry == DomainsToTry[proc.origin]
         domain == domainsToTry[proc.cand]
         value == CookieValue(cookies, domain)
     IN  IF value # ""
         THEN /\ lastSuccessfulCookieDomain' = domain
              /\ proc' = Resume(proc, value, domain)
         ELSE /\ UNCHANGED lastSuccessfulCookieDomain
              /\ proc' = IF proc.cand < Len(domainsToTry)
                         THEN [proc EXCEPT !.cand = @ + 1]
                         ELSE [proc EXCEPT !.pc = "cookieAll"]
  /\ UNCHANGED <<cookies, handlers, pageVars, domainVars>>

\* The callback of chrome.cookies.getAll.   (src/unnamed/part_001:128-156)
CookieListed ==
  /\ proc.pc = "cookieAll"
  /\ LET sidCookies == SidCookies(cookies)
     IN  IF Len(sidCookies) > 0
         THEN LET cookie == FallbackCookie(sidCookies, proc.origin)
              IN  /\ lastSuccessfulCookieDomain' = Url(cookie.domain)
                  /\ proc' = Resume(proc, cookie.value, Url(cookie.domain))
         ELSE /\ UNCHANGED lastSuccessfulCookieDomain
              /\ proc' = Resume(proc, "", lastSuccessfulCookieDomain)
  /\ UNCHANGED <<cookies, handlers, pageVars, domainVars>>

\* The response of the fetch the process waits on arrives (or the fetch
\* fails) and the body is parsed.
HttpResponse(status) ==
  /\ proc.pc = "http"
  /\ status \in Statuses(proc.site)
  /\ \E body \in Bodies(proc.site, status) :
       proc' = OnResponse(proc, status, body)
  /\ UNCHANGED <<cookies, lastSuccessfulCookieDomain, handlers, pageVars, domainVars>>

BrokerNext ==
  \/ \E m \in Requests : Receive(m)
  \/ CookieLookup
  \/ CookieListed
  \/ \E status \in {"ok", "http", "net", "bad"} : HttpResponse(status)

(* ------------------------ requests under way at once ------------------ *)

\* Each step below is one task of the service worker's event loop with the
\* microtasks it queues: the callback of a chrome API or the settling of a
\* fetch resolves the promise a handler awaits, and the handler runs on to
\* its next await of such a promise.  getSessionCookie returning to its
\* caller is a microtask of the task that stored the domain.

\* The stores the tabs' requests are resolved against: a token of each
\* org, a token of one, tokens only the enumeration finds, no token.
TabStores ==
  {<<CookieB, CookieA>>, <<CookieTest, CookieB>>, <<CookieOther, CookieForce>>,
   <<CookieLang>>}

\* The requests two tabs send while the other's is under way: a lookup of
\* an object name and the update of one field.
TabRequests ==
  {m \in Requests : \/ m.kind = "fetchCustomObjectApiName"
                    \/ m.kind = "bulkUpdateFields" /\ m.nFields = 1
                                                   /\ m.changed = {"Description"}}

\* One body for each call site: what the body holds has no part in where
\* the call is sent.
TabBodies(site, status) ==
  IF status # "ok" THEN {FALSE}
  ELSE CASE site = "fieldGet" -> {CHOOSE d \in FieldDatas : d # NoMetadata /\ ~UsesDirectUpdate(d)}
         [] site = "fieldExtra" -> {CHOOSE r \in ExtraRecords : TRUE}
         [] OTHER -> {TRUE}

\* A handler reading the shared domain as it was before its own
\* getSessionCookie stored one.
AwaitReturnsStale(h, sessionId, domain) ==
  /\ lastSuccessfulCookieDomain' = domain
  /\ handlers' = [handlers EXCEPT ![h] = Resume(@, sessionId, lastSuccessfulCookieDomain)]

\* getSessionCookie stores the domain and returns the token; the caller's
\* continuation runs next and reads global.lastSuccessfulCookieDomain.
\* (src/unnamed/part_001:116-119, 164-170)
AwaitReturns(h, sessionId, domain) ==
  /\ lastSuccessfulCookieDomain' = domain
  /\ handlers' = [handlers EXCEPT ![h] = Resume(@, sessionId, domain)]

\* chrome.runtime.onMessage: a request of tab h arrives.
\* (src/unnamed/part_001:661-747)
TabReceive(h, m) ==
  /\ handlers[h].pc \in {"idle", "done"}
  /\ m \in TabRequests
  /\ LET p == [IdleProc EXCEPT !.kind = m.kind, !.origin = m.origin,
                               !.nFields = m.nFields, !.edited = m.edited,
                               !.changed = m.changed]
     IN  handlers' = [handlers EXCEPT ![h] =
                        IF m.kind = "bulkUpdateFields" THEN StartField(p, 1)
                        ELSE StartResolution(p, "main")]
  /\ UNCHANGED <<cookies, lastSuccessfulCookieDomain, proc, pageVars, domainVars>>

\* The callback of chrome.cookies.get for the candidate of handler h.
\* (src/unnamed/part_001:100-123)
TabCookieLookup(h) ==
  /\ handlers[h].pc = "cookie"
  /\ LET p == handlers[h]
         domainsToTry == DomainsToTry[p.origin]
         domain == domainsToTry[p.cand]
         value == CookieValue(cookies, domain)
     IN  IF value # ""
         THEN AwaitReturns(h, value, domain)
         ELSE /\ UNCHANGED lastSuccessfulCookieDomain
              /\ handlers' = [handlers EXCEPT ![h] =
                                IF p.cand < Len(domainsToTry)
                                THEN [p EXCEPT !.cand = @ + 1]
                                ELSE [p EXCEPT !.pc = "cookieAll"]]
  /\ UNCHANGED <<cookies, proc, pageVars, domainVars>>

\* The callback of chrome.cookies.getAll of handler h.
\* (src/unnamed/part_001:128-156)
TabCookieListed(h) ==
  /\ handlers[h].pc = "cookieAll"
  /\ LET sidCookies == SidCookies(cookies)
     IN  IF Len(sidCookies) > 0
         THEN LET cookie == FallbackCookie(sidCookies, handlers[h].origin)
              IN  AwaitReturns(h, cookie.value, Url(cookie.domain))
         ELSE /\ UNCHANGED lastSuccessfulCookieDomain
              /\ handlers' = [handlers EXCEPT ![h] =
                                Resume(@, "", lastSuccessfulCookieDomain)]
  /\ UNCHANGED <<cookies, proc, pageVars, domainVars>>

\* The fetch handler h waits on settles.
TabHttpResponse(h, status) ==
  /\ handlers[h].pc = "http"
  /\ status \in {"ok", "http"}
  /\ \E body \in TabBodies(handlers[h].site, status) :
       handlers' = [handlers EXCEPT ![h] = OnResponse(@, status, body)]
  /\ UNCHANGED <<cookies, lastSuccessfulCookieDomain, proc, pageVars, domainVars>>

ConcurrentNext ==
  \E h \in Tabs :
    \/ \E m \in TabRequests : TabReceive(h, m)
    \/ TabCookieLookup(h)
    \/ TabCookieListed(h)
    \/ \E status \in {"ok", "http"} : TabHttpResponse(h, status)

ConcurrentInit ==
  /\ cookies \in TabStores
  /\ lastSuccessfulCookieDomain = <<>>
  /\ proc = IdleProc
  /\ handlers = [h \in Tabs |-> IdleProc]

(***************************************************************************)
(* PAGE AGENT (src/content.js, lines 991-2255)                             *)
(***************************************************************************)

RowIds == 1..NRows
Null == "<null>"

\* The cells of each row element as the host page renders them:
\* label, API identifier, type (src/content.js:1388-1390).
RowCells(r) ==
  CASE r = 1 -> << <<"I","n","d","u","s","t","r","y">>,
                   <<"I","n","d","u","s","t","r","y">>,
                   <<"P","i","c","k","l","i","s","t">> >>
    [] r = 2 -> << <<"S","t","a","g","e">>,
                   <<" ","S","t","a","g","e","_","_","c"," ">>,
                   <<"P","i","c","k","l","i","s","t"," ","(","M","u","l","t","i",")">> >>
    [] r = 3 -> << <<"N","a","m","e">>,
                   <<"N","a","m","e">>,
                   <<"T","e","x","t">> >>
    [] OTHER -> << <<"N","o"," ","i","t","e","m","s">> >>

\* The picklist text the Broker answers for a field (data.picklistText).
BrokerText(fieldApiName) ==
  CASE fieldApiName = <<"I","n","d","u","s","t","r","y">> ->
         <<"b","a","n","k","i","n","g",","," ","r","e","t","a","i","l">>
    [] fieldApiName = <<"S","t","a","g","e","_","_","c">> ->
         <<"o","p","e","n",","," ","w","o","n">>
    [] OTHER -> <<"a",","," ","b">>

\* What the user may type into the search input.
QueryValues ==
  { <<>>,
    <<" ","Y"," ","b">> }

PathAccount ==
  <<"/","lightning","/","setup","/","ObjectManager","/","Account",
    "/","FieldsAndRelationships","/","view">>
PathHome ==
  <<"/","lightning","/","setup","/","ObjectManager","/","home">>
PathSObject ==
  <<"/","lightning","/","setup","/","sObject","/","Order%20Item",
    "/","FieldsAndRelationships","/","view">>
PathSObjectId ==
  <<"/","lightning","/","setup","/","sObject","/","01I5e000000Abcd",
    "/","FieldsAndRelationships","/","view">>
PathList ==
  <<"/","lightning","/","o","/","Account","/","list">>
PathCustom ==
  <<"/","lightning","/","setup","/","sObject","/","My_Object__c",
    "/","FieldsAndRelationships","/","view">>

Paths == {PathAccount, PathHome, PathSObject, PathSObjectId, PathList}

\* decodeURIComponent on the path segments of the model.
decodeURIComponent(s) ==
  CASE s = "Order%20Item" -> "Order Item"
    [] OTHER -> s

\* Segments with a character outside [a-zA-Z0-9].
NonAlnumSegments == {"Order%20Item", "Order Item", "My_Object__c"}

\* /^[a-zA-Z0-9]{15,18}$/.test(identifier)    (src/content.js:1072)
IsRecordId(s) == /\ s \notin NonAlnumSegments
                 /\ Len(s) >= 15
                 /\ Len(s) <= 18

\* The run of non-"/" tokens of p that starts at position i.
RECURSIVE SegmentRun(_, _)
SegmentRun(p, i) ==
  IF i > Len(p) \/ p[i] = "/" THEN <<>> ELSE <<p[i]>> \o SegmentRun(p, i + 1)

\* Capture group 1 of /(?:ObjectManager|\/sObject\/)([^\/]+)/ when the match
\* starts at token i; <<>> when there is no match at i.  (src/content.js:1068)
ApiNameMatchAt(p, i) ==
  IF p[i] = "ObjectManager" THEN SegmentRun(p, i + 1)
  ELSE IF /\ i + 2 <= Len(p)
          /\ p[i] = "/" /\ p[i + 1] = "sObject" /\ p[i + 2] = "/"
       THEN SegmentRun(p, i + 3)
       ELSE <<>>

\* pathname.match(regex): the leftmost match; match[1] decoded, or Null.
UrlIdentifier(p) ==
  LET hits == {i \in 1..Len(p) : ApiNameMatchAt(p, i) # <<>>}
  IN  IF hits = {} THEN Null
      ELSE LET first == CHOOSE i \in hits : \A j \in hits : i <= j
           IN  decodeURIComponent(ConcatTokens(ApiNameMatchAt(p, first)))

\* API name the Broker answers for a record id (fetchCustomObjectApiName).
ApiNameOfId(id) == "Invoice__c"

SetupMarker == <<"/","lightning","/","setup","/">>
HomeMarker == <<"/","ObjectManager","/","home">>

\* window.location.pathname.includes("/ObjectManager/home")  (src/content.js:1092)
isObjectManagerHomePage(p) == Includes(p, HomeMarker)


\* getObjectApiNameFromURL up to its first suspension: the identifier is
\* absent, is a record id (a fetchCustomObjectApiName request goes out and
\* the response is awaited), or is the API name.   (src/content.js:1067-1086)
getObjectApiNameFromURL(p) ==
  LET identifier == UrlIdentifier(p)
  IN  IF identifier = Null
      THEN [wait |-> "micro", name |-> Null, id |-> Null]
      ELSE IF IsRecordId(identifier)
           THEN [wait |-> "msg", name |-> Null, id |-> identifier]
           ELSE [wait |-> "micro", name |-> identifier, id |-> Null]

\* The values the awaited call can resolve to: for a record id the Broker's
\* response is a success carrying the API name, or a failure.
ResolvedNames(c) ==
  IF c.wait = "micro" THEN {c.name} ELSE {ApiNameOfId(c.id), Null}

PicklistWord == <<"p","i","c","k","l","i","s","t">>

\* The predicate of onQuickFindInput with label and picklist text joined
\* without a separator.
RowMatchesUnspaced(query, r, picklistText) ==
  LET cells == RowCells(r)
  IN  \/ query = <<>>
      \/ Includes(ToLowerCase(cells[1]) \o ToLowerCase(picklistText), query)
      \/ Includes(ToLowerCase(cells[2]), query)
      \/ Includes(ToLowerCase(cells[3]), query)

\* The predicate of onQuickFindInput for one row.   (src/content.js:1388-1394)
RowMatches(query, r, picklistText) ==
  LET cells == RowCells(r)
      fieldLabel == ToLowerCase(cells[1])
      apiName == ToLowerCase(cells[2])
      fieldType == ToLowerCase(cells[3])
      combined == fieldLabel \o <<" ">> \o ToLowerCase(picklistText)
  IN  \/ query = <<>>
      \/ Includes(combined, query)
      \/ Includes(apiName, query)
      \/ Includes(fieldType, query)

\* tableBody.querySelectorAll("tr"): the attached rows.
InTable(rs, r) == rs[r].status = "attached"

\* onQuickFindInput({target: {value}}) applied to the rows rs.
\* (src/content.js:1378-1396)
onQuickFindInput(value, rs) ==
  LET query == ToLowerCase(Trim(value))
  IN  IF ~tableBody THEN rs
      ELSE [r \in RowIds |->
              IF InTable(rs, r) /\ Len(RowCells(r)) >= 3
              THEN [rs[r] EXCEPT !.display =
                      IF RowMatches(query, r, rs[r].picklistText) THEN "" ELSE "none"]
              ELSE rs[r]]

\* A pass that asks again for every row that has no picklist text yet.
ToProcessRetry(rs, r) ==
  /\ InTable(rs, r)
  /\ ~rs[r].hasText
  /\ Len(RowCells(r)) >= 3

\* The rows one processPicklistRows pass works on: attached, not marked
\* fetched, at least three cells.   (src/content.js:1430-1433)
ToProcess(rs, r) ==
  /\ InTable(rs, r)
  /\ ~rs[r].picklistFetched
  /\ Len(RowCells(r)) >= 3

\* fieldType.includes("picklist")   (src/content.js:1435, 1439)
IsPicklistRow(r) == Includes(ToLowerCase(RowCells(r)[3]), PicklistWord)

\* The message fetchPicklistValuesViaBackground sends for a row, with the
\* row its callback closes over.   (src/content.js:1398-1401, 1436-1437)
PicklistRequest(r, objectName) ==
  LET fieldApiName == Trim(RowCells(r)[2])
  IN  [type |-> "fetchPicklistValues", row |-> r, objectName |-> objectName,
       fieldApiName |-> fieldApiName,
       isStandard |-> ~EndsWith(fieldApiName, CustomSuffix)]

\* The requests one pass sends, in row order.
RECURSIVE RequestsFrom(_, _, _)
RequestsFrom(rs, objectName, r) ==
  IF r > NRows THEN <<>>
  ELSE (IF ToProcess(rs, r) /\ IsPicklistRow(r)
        THEN <<PicklistRequest(r, objectName)>> ELSE <<>>)
       \o RequestsFrom(rs, objectName, r + 1)

\* The rows after one pass of the forEach of processPicklistRows.
\* (src/content.js:1429-1447)
RowsAfterPass(rs) ==
  [r \in RowIds |->
     IF ~ToProcess(rs, r) THEN rs[r]
     ELSE IF IsPicklistRow(r)
          THEN [rs[r] EXCEPT !.picklistFetched = TRUE]
          ELSE [rs[r] EXCEPT !.picklistFetched = TRUE,
                             !.hasText = TRUE, !.picklistText = <<>>]]

Bump(n) == IF n < MaxSent THEN n + 1 ELSE n

FreshRow ==
  [status |-> "new", picklistFetched |-> FALSE, hasText |-> FALSE,
   picklistText |-> <<>>, display |-> ""]


\* The search input element: none, the host's or the clone of
\* setupCustomQuickFind; forObject notes the object whose initialisation
\* put the clone there, replaced the replaceChild calls it descends from.
NoInput == [kind |-> "none", gen |-> 0, forObject |-> Null, replaced |-> 0]
HostInput == [kind |-> "host", gen |-> 1, forObject |-> Null, replaced |-> 0]

Add(bag, x) == bag (+) SetToBag({x})
Remove(bag, x) == bag (-) SetToBag({x})

\* processPicklistRows up to its await: nothing without a table body, else
\* the call is suspended on getObjectApiNameFromURL.  (src/content.js:1418-1422)
PprCalled(bag, times) ==
  IF ~tableBody \/ times = 0 THEN bag
  ELSE LET c == getObjectApiNameFromURL(pathname)
       IN  bag (+) [x \in {c} |-> times]

\* No openBulkUpdateModal call is under way.
ModalIdle ==
  [pc |-> "idle", objectName |-> Null, customObjectId |-> FALSE,
   fields |-> 0,        \* customFields.length
   field |-> 0,         \* position in customFields
   pushed |-> 0,        \* fieldsForModal.length
   sent |-> <<>>,       \* chrome.runtime.sendMessage calls, by type
   fetches |-> <<>>,    \* fetch calls of the content script, by function
   outcome |-> ""]      \* "alert" or "shown"

PageInit ==
  /\ modal = ModalIdle
  /\ pathname \in Paths
  /\ tableBody \in BOOLEAN
  /\ rows = [r \in RowIds |-> FreshRow]
  /\ searchInput \in {NoInput, HostInput}
  /\ qfValue = <<>>
  /\ lastObjectName = Null
  /\ signals = 0
  /\ timers = 1          \* the call at src/content.js:2210
  /\ inits = EmptyBag
  /\ navigations = 0
  /\ observers = 0
  /\ pprs = EmptyBag
  /\ inFlight = EmptyBag
  /\ sentCount = [r \in RowIds |-> 0]

\* A continuation is ready to run as a microtask: an await on a call that
\* sent no message, or a waitForElement whose element is in the document.
\* Microtasks run before the next task (event, timer or message) is taken.
MicroPending ==
  \/ \E c \in BagToSet(inits) :
        \/ c.pc = "name" /\ c.wait = "micro"
        \/ c.pc \in {"table", "homeTable"} /\ tableBody
        \/ c.pc = "homeSearch" /\ searchInput.kind # "none"
  \/ \E c \in BagToSet(pprs) : c.wait = "micro"

(* ------------------------- the host page ------------------------------ *)

\* The host renders the table body.
HostShowTable ==
  /\ ~MicroPending
  /\ ~tableBody
  /\ tableBody' = TRUE
  /\ UNCHANGED <<pathname, rows, searchInput, qfValue, lastObjectName,
                 signals, timers, inits, navigations,
                 observers, pprs, inFlight, sentCount,
                 modal, waitVars, brokerVars, domainVars>>

\* The host renders its search box.
HostShowSearch ==
  /\ ~MicroPending
  /\ searchInput.kind = "none"
  /\ searchInput.gen = 0
  /\ searchInput' = HostInput
  /\ qfValue' = <<>>
  /\ UNCHANGED <<pathname, tableBody, rows, lastObjectName, signals, timers, inits, navigations, observers, pprs,
                 inFlight, sentCount,
                 modal, waitVars, brokerVars, domainVars>>

\* The host appends the next row (lazy loading); every registered
\* MutationObserver calls processPicklistRows.   (src/content.js:2180-2183)
HostAddRow(r) ==
  /\ ~MicroPending
  /\ tableBody
  /\ rows[r].status = "new"
  /\ \A q \in RowIds : q < r => InTable(rows, q)
  /\ BagCardinality(pprs) + observers <= MaxPending
  /\ rows' = [rows EXCEPT ![r].status = "attached"]
  /\ pprs' = PprCalled(pprs, observers)
  /\ UNCHANGED <<pathname, tableBody, searchInput, qfValue, lastObjectName,
                 signals, timers, inits, navigations,
                 observers, inFlight, sentCount,
                 modal, waitVars, brokerVars, domainVars>>

\* In-place navigation; the row elements stay in the table.  The Broker
\* forwards it as a "location-changed" message when the new URL is a setup
\* page.  (src/unnamed/part_001:749-753)
Navigate(p) ==
  /\ ~MicroPending
  /\ navigations < MaxNavigations
  /\ signals + timers + BagCardinality(inits) < MaxInits
  /\ p # pathname
  /\ pathname' = p
  /\ navigations' = navigations + 1
  /\ signals' = IF Includes(p, SetupMarker) THEN signals + 1 ELSE signals
  /\ UNCHANGED <<tableBody, rows, searchInput, qfValue, lastObjectName,
                 timers, inits, observers, pprs, inFlight,
                 sentCount,
                 modal, waitVars, brokerVars, domainVars>>

\* The host updates the history entry of the page it shows (the query or
\* the state changes, the path does not); the Broker forwards it as a
\* "location-changed" message.  (src/unnamed/part_001:749-753)
HistoryUpdated ==
  /\ ~MicroPending
  /\ navigations < MaxNavigations
  /\ signals + timers + BagCardinality(inits) < MaxInits
  /\ Includes(pathname, SetupMarker)
  /\ navigations' = navigations + 1
  /\ signals' = signals + 1
  /\ UNCHANGED <<pathname, tableBody, rows, searchInput, qfValue, lastObjectName,
                 timers, inits, observers, pprs, inFlight,
                 sentCount,
                 modal, waitVars, brokerVars, domainVars>>

\* The user edits the search box; the clone carries the input listener.
\* (src/content.js:1370, 1378-1396)
UserInput(v) ==
  /\ ~MicroPending
  /\ searchInput.kind = "custom"
  /\ v # qfValue
  /\ qfValue' = v
  /\ rows' = onQuickFindInput(v, rows)
  /\ UNCHANGED <<pathname, tableBody, searchInput, lastObjectName,
                 signals, timers, inits, navigations,
                 observers, pprs, inFlight, sentCount,
                 modal, waitVars, brokerVars, domainVars>>


(* ------------------------- the content script ------------------------- *)

\* The "location-changed" listeners.   (src/content.js:2194-2208)
LocationChanged ==
  /\ ~MicroPending
  /\ signals > 0
  /\ signals' = signals - 1
  /\ lastObjectName' = Null
  /\ timers' = timers + 1
  /\ UNCHANGED <<pathname, tableBody, rows, searchInput, qfValue, inits,
                 navigations, observers, pprs, inFlight, sentCount,
                 modal, waitVars, brokerVars, domainVars>>

\* initPicklistProcessing up to its first await.   (src/content.js:2100-2138)
InitStart ==
  /\ ~MicroPending
  /\ timers > 0
  /\ timers' = timers - 1
  /\ inits' =
       IF ~Includes(pathname, SetupMarker) THEN inits
       ELSE IF isObjectManagerHomePage(pathname)
            THEN Add(inits, [pc |-> "homeTable", orig |-> NoInput,
                             wait |-> "micro", name |-> Null, id |-> Null])
            ELSE LET c == getObjectApiNameFromURL(pathname)
                 IN  Add(inits, [pc |-> "name", orig |-> NoInput,
                                 wait |-> c.wait, name |-> c.name, id |-> c.id])
  /\ UNCHANGED <<pathname, tableBody, rows, searchInput, qfValue,
                 lastObjectName, signals, navigations,
                 observers, pprs, inFlight, sentCount,
                 modal, waitVars, brokerVars, domainVars>>

\* The object-change teardown removes #customQuickFind.  (src/content.js:2139-2142)
TearsDown(objectName) ==
  /\ objectName # Null
  /\ lastObjectName # Null
  /\ lastObjectName # objectName
  /\ searchInput.kind = "custom"

\* The detail-page body resumes with the object name, looks up the search
\* input and suspends on waitForElement("table tbody").
\* (src/content.js:2138-2154)
InitNamed(c) ==
  /\ BagIn(c, inits)
  /\ c.pc = "name"
  /\ c.wait = "micro" \/ ~MicroPending
  /\ \E objectName \in ResolvedNames(c) :
       LET input == IF TearsDown(objectName) THEN NoInput ELSE searchInput
       IN  /\ searchInput' = input
           /\ qfValue' = IF TearsDown(objectName) THEN <<>> ELSE qfValue
           /\ lastObjectName' = objectName
           /\ inits' = Add(Remove(inits, c),
                           [pc |-> "table", orig |-> input, wait |-> "micro",
                            name |-> objectName, id |-> Null])
  /\ UNCHANGED <<pathname, tableBody, rows, signals, timers, navigations,
                 observers, pprs, inFlight, sentCount,
                 modal, waitVars, brokerVars, domainVars>>

\* setupCustomQuickFind without the check of dataset.customized.
setupCustomQuickFindUnchecked(originalInput) ==
  IF originalInput.kind = "none" \/ originalInput # searchInput
  THEN searchInput
  ELSE [kind |-> "custom", gen |-> originalInput.gen, forObject |-> Null,
        replaced |-> originalInput.replaced + 1]

\* setupCustomQuickFind(originalInput): the search input afterwards.
\* (src/content.js:1354-1376)
setupCustomQuickFind(originalInput) ==
  IF originalInput.kind = "none" \/ originalInput # searchInput
  THEN searchInput                      \* no input, or no parentNode
  ELSE IF originalInput.kind = "custom"
       THEN searchInput                 \* dataset.customized === "true"
       ELSE [kind |-> "custom", gen |-> originalInput.gen, forObject |-> Null,
             replaced |-> originalInput.replaced + 1]

\* setupCustomQuickFind as the detail-page body of an initialisation for
\* objectName calls it.   (src/content.js:2161-2162)
SetUpFor(originalInput, objectName) ==
  LET input == setupCustomQuickFind(originalInput)
  IN  IF input = searchInput THEN searchInput
      ELSE [input EXCEPT !.forObject = objectName]

\* The rest of the detail-page body: quick-find setup, the first
\* processPicklistRows call and the MutationObserver.  (src/content.js:2161-2185)
DetailFinish(c) ==
  /\ searchInput' = IF c.orig.kind # "none" THEN SetUpFor(c.orig, c.name)
                    ELSE searchInput
  /\ pprs' = PprCalled(pprs, 1)
  /\ observers' = observers + 1
  /\ inits' = Remove(inits, c)

\* waitForElement("table tbody") resolves; the body goes on to
\* autoScrollAndWait when there is a scrollable parent.  (src/content.js:2154-2159)
InitTableFound(c) ==
  /\ BagIn(c, inits)
  /\ c.pc = "table"
  /\ tableBody
  /\ BagCardinality(pprs) < MaxPending
  /\ \/ /\ inits' = Add(Remove(inits, c), [c EXCEPT !.pc = "scroll"])
        /\ UNCHANGED <<searchInput, pprs, observers>>
     \/ DetailFinish(c)
  /\ UNCHANGED <<pathname, tableBody, rows, qfValue, lastObjectName,
                 signals, timers, navigations, inFlight,
                 sentCount,
                 modal, waitVars, brokerVars, domainVars>>

\* autoScrollAndWait resolves.   (src/content.js:2157-2158)
InitScrolled(c) ==
  /\ ~MicroPending
  /\ BagIn(c, inits)
  /\ c.pc = "scroll"
  /\ BagCardinality(pprs) < MaxPending
  /\ DetailFinish(c)
  /\ UNCHANGED <<pathname, tableBody, rows, qfValue, lastObjectName,
                 signals, timers, navigations, inFlight,
                 sentCount,
                 modal, waitVars, brokerVars, domainVars>>

\* waitForElement rejects after its timeout; the body's catch logs.
\* (src/content.js:1029-1032, 2128-2130, 2186-2188)
InitTimeout(c) ==
  /\ ~MicroPending
  /\ BagIn(c, inits)
  /\ \/ c.pc \in {"table", "homeTable"} /\ ~tableBody
     \/ c.pc = "homeSearch" /\ searchInput.kind = "none"
  /\ inits' = Remove(inits, c)
  /\ UNCHANGED <<pathname, tableBody, rows, searchInput, qfValue,
                 lastObjectName, signals, timers,
                 navigations, observers, pprs, inFlight, sentCount,
                 modal, waitVars, brokerVars, domainVars>>

\* Home page: the table body is there (and scrolled); wait for the search
\* container.   (src/content.js:2106-2113)
InitHomeTableFound(c) ==
  /\ BagIn(c, inits)
  /\ c.pc = "homeTable"
  /\ tableBody
  /\ inits' = Add(Remove(inits, c), [c EXCEPT !.pc = "homeSearch"])
  /\ UNCHANGED <<pathname, tableBody, rows, searchInput, qfValue,
                 lastObjectName, signals, timers,
                 navigations, observers, pprs, inFlight, sentCount,
                 modal, waitVars, brokerVars, domainVars>>

\* Home page: the container is there; set up quick find on its input.
\* (src/content.js:2113-2127)
InitHomeFinish(c) ==
  /\ BagIn(c, inits)
  /\ c.pc = "homeSearch"
  /\ searchInput.kind # "none"
  /\ searchInput' = setupCustomQuickFind(searchInput)
  /\ inits' = Remove(inits, c)
  /\ UNCHANGED <<pathname, tableBody, rows, qfValue, lastObjectName,
                 signals, timers, navigations, observers,
                 pprs, inFlight, sentCount,
                 modal, waitVars, brokerVars, domainVars>>

\* processPicklistRows resumes with the object name and runs its forEach.
\* (src/content.js:1422-1447)
PprResume(c) ==
  /\ BagIn(c, pprs)
  /\ c.wait = "micro" \/ ~MicroPending
  /\ pprs' = Remove(pprs, c)
  /\ \E objectName \in ResolvedNames(c) :
       IF objectName = Null
       THEN UNCHANGED <<rows, inFlight, sentCount>>
       ELSE LET reqs == RequestsFrom(rows, objectName, 1)
            IN  /\ rows' = RowsAfterPass(rows)
                /\ inFlight' = inFlight (+) SetToBag({reqs[i] : i \in 1..Len(reqs)})
                /\ sentCount' =
                     [r \in RowIds |->
                        IF \E i \in 1..Len(reqs) : reqs[i].row = r
                        THEN Bump(sentCount[r]) ELSE sentCount[r]]
  /\ UNCHANGED <<pathname, tableBody, searchInput, qfValue, lastObjectName,
                 signals, timers, inits, navigations, observers,
                 modal, waitVars, brokerVars, domainVars>>

\* What the channel can hand to the callback of a fetchPicklistValues
\* request: a success with the field's text, or a failure.
Responses(req) ==
  { [success |-> TRUE, picklistText |-> BrokerText(req.fieldApiName)],
    [success |-> FALSE, picklistText |-> <<>>] }

\* A callback that takes the row from the response order, not its closure:
\* the lowest row with a request outstanding.
CallbackRowByOrder(req) ==
  CHOOSE r \in RowIds :
    /\ \E q \in BagToSet(inFlight) : q.row = r
    /\ \A q \in BagToSet(inFlight) : r <= q.row

\* The row the callback of a request writes to: the one it closes over.
\* (src/content.js:1402-1405)
CallbackRow(req) == req.row

\* A callback that stores the text and leaves the filter as it was.
RowsAfterResponseNoFilter(req, response) ==
  [rows EXCEPT ![CallbackRow(req)].hasText = TRUE,
               ![CallbackRow(req)].picklistText = response.picklistText]

\* The rows after the callback stored the text and re-ran the filter.
\* (src/content.js:1403-1410)
RowsAfterResponse(req, response) ==
  LET stored == [rows EXCEPT ![CallbackRow(req)].hasText = TRUE,
                             ![CallbackRow(req)].picklistText = response.picklistText]
  IN  IF searchInput.kind = "custom" THEN onQuickFindInput(qfValue, stored)
      ELSE stored

\* The callback of fetchPicklistValuesViaBackground.  (src/content.js:1402-1414)
Deliver(req) ==
  /\ ~MicroPending
  /\ BagIn(req, inFlight)
  /\ inFlight' = Remove(inFlight, req)
  /\ \E response \in Responses(req) :
       rows' = IF response.success THEN RowsAfterResponse(req, response) ELSE rows
  /\ UNCHANGED <<pathname, tableBody, searchInput, qfValue, lastObjectName,
                 signals, timers, inits, navigations,
                 observers, pprs, sentCount,
                 modal, waitVars, brokerVars, domainVars>>


(* ---------------------- the bulk update modal ------------------------- *)

\* chrome.runtime.sendMessage({type: kind, ...}, callback).
Send(m, kind) == [m EXCEPT !.sent = Append(@, kind)]

\* fetch(url, ...) called by the content script itself.
PageFetch(m, site) == [m EXCEPT !.fetches = Append(@, site)]

\* hideSpinner(); alert(...); the call is over.
Alert(m) == [m EXCEPT !.pc = "end", !.outcome = "alert"]

\* objectName.endsWith('__c') over the object names of the model, which
\* are whole tokens.   (src/content.js:1982)
IsCustomObject(m) == m.objectName \in {"Invoice__c", "My_Object__c"}

\* openBulkUpdateModal once it has the object name: getDescriptions starts
\* with the getSessionCookie message.   (src/content.js:1961-1972, 992-994)
ModalNamed(m, objectName, customObjectId) ==
  IF objectName = Null THEN Alert(m)
  ELSE Send([m EXCEPT !.pc = "session", !.objectName = objectName,
                      !.customObjectId = customObjectId],
            "getSessionCookie")

\* getDescriptions is over (returned, or threw into the catch around it):
\* the fetchObjectDescribe message goes out.   (src/content.js:2037-2045)
ModalDescribe(m) == Send([m EXCEPT !.pc = "describe"], "fetchObjectDescribe")

\* The for loop over customFields from position i on.
\* (src/content.js:2059-2092)
ModalField(m, i) ==
  IF i <= m.fields
  THEN Send([m EXCEPT !.pc = "fieldId", !.field = i], "getCustomFieldId")
  ELSE IF m.pushed > 0
       THEN [m EXCEPT !.pc = "end", !.outcome = "shown"]
       ELSE Alert(m)

\* fieldsForModal.push(...) and the next turn of the loop.
\* (src/content.js:2070-2077)
ModalPush(m) == ModalField([m EXCEPT !.pushed = @ + 1], m.field + 1)

\* The user clicks "Bulk Update Custom Fields".   (src/content.js:1958-1967)
ModalOpen ==
  /\ modal.pc = "idle"
  /\ LET c == getObjectApiNameFromURL(pathname)
     IN  modal' = IF c.wait = "msg"
                  THEN Send([modal EXCEPT !.pc = "name"], "fetchCustomObjectApiName")
                  ELSE ModalNamed(modal, c.name, FALSE)
  /\ UNCHANGED <<contentVars, waitVars, brokerVars, domainVars>>

\* The response to fetchCustomObjectApiName arrives.   (src/content.js:1077-1083)
ModalNameReply(success) ==
  /\ modal.pc = "name"
  /\ modal' = IF success
              THEN ModalNamed(modal, ApiNameOfId(UrlIdentifier(pathname)), TRUE)
              ELSE ModalNamed(modal, Null, FALSE)
  /\ UNCHANGED <<contentVars, waitVars, brokerVars, domainVars>>

\* The response to the getSessionCookie message of getDescriptions: a
\* token, a success without a token, or no success.
\* (src/content.js:994-1000, 1972-2001)
ModalSession(response) ==
  /\ modal.pc = "session"
  /\ modal' =
       IF response # "token" THEN ModalDescribe(modal)
       ELSE IF IsCustomObject(modal) /\ ~modal.customObjectId
            THEN Send([modal EXCEPT !.pc = "objectId"], "getObjectId")
            ELSE PageFetch([modal EXCEPT !.pc = "fetch"], "getDescriptions")
  /\ UNCHANGED <<contentVars, waitVars, brokerVars, domainVars>>

\* The callback of the getObjectId message runs without a response: the
\* object id stays unset and no url is built.   (src/content.js:1988-2001)
ModalObjectId ==
  /\ modal.pc = "objectId"
  /\ modal' = ModalDescribe(modal)
  /\ UNCHANGED <<contentVars, waitVars, brokerVars, domainVars>>

\* The fetch of getDescriptions resolves or rejects.   (src/content.js:2006-2041)
ModalFetched(status) ==
  /\ modal.pc = "fetch"
  /\ modal' = ModalDescribe(modal)
  /\ UNCHANGED <<contentVars, waitVars, brokerVars, domainVars>>

\* The response to fetchObjectDescribe: a failure, or the number of
\* editable custom fields it lists.   (src/content.js:2047-2057, 2093-2096)
ModalDescribed(success, n) ==
  /\ modal.pc = "describe"
  /\ modal' = IF ~success \/ n = 0 THEN Alert(modal)
              ELSE ModalField([modal EXCEPT !.fields = n], 1)
  /\ UNCHANGED <<contentVars, waitVars, brokerVars, domainVars>>

\* The response to getCustomFieldId: on success getCustomFieldDescription
\* starts with its getSessionCookie message.   (src/content.js:2061-2066, 2213)
ModalFieldId(success) ==
  /\ modal.pc = "fieldId"
  /\ modal' = IF success
              THEN Send([modal EXCEPT !.pc = "descSession"], "getSessionCookie")
              ELSE ModalField(modal, modal.field + 1)
  /\ UNCHANGED <<contentVars, waitVars, brokerVars, domainVars>>

\* The response to the getSessionCookie message of
\* getCustomFieldDescription: no success rejects into the catch of
\* openBulkUpdateModal.   (src/content.js:2213-2231, 2097-2101)
ModalDescSession(response) ==
  /\ modal.pc = "descSession"
  /\ modal' = CASE response = "token" ->
                     PageFetch([modal EXCEPT !.pc = "descFetch"],
                               "getCustomFieldDescription")
                [] response = "empty" -> ModalPush(modal)
                [] OTHER -> Alert(modal)
  /\ UNCHANGED <<contentVars, waitVars, brokerVars, domainVars>>

\* The fetch of getCustomFieldDescription resolves or rejects.
\* (src/content.js:2228-2253)
ModalDescFetched(status) ==
  /\ modal.pc = "descFetch"
  /\ modal' = ModalPush(modal)
  /\ UNCHANGED <<contentVars, waitVars, brokerVars, domainVars>>

ModalNext ==
  \/ ModalOpen
  \/ \E success \in BOOLEAN : ModalNameReply(success)
  \/ \E response \in {"token", "empty", "none"} : ModalSession(response)
  \/ ModalObjectId
  \/ \E status \in {"ok", "http", "net"} : ModalFetched(status)
  \/ \E success \in BOOLEAN, n \in 0..MaxModalFields : ModalDescribed(success, n)
  \/ \E success \in BOOLEAN : ModalFieldId(success)
  \/ \E response \in {"token", "empty", "none"} : ModalDescSession(response)
  \/ \E status \in {"ok", "http", "net"} : ModalDescFetched(status)

\* The content script is loaded on one of the pages, nothing else moves.
ModalInit ==
  /\ modal = ModalIdle
  /\ pathname \in Paths \cup {PathCustom}
  /\ tableBody = FALSE
  /\ rows = [r \in RowIds |-> FreshRow]
  /\ searchInput = NoInput
  /\ qfValue = <<>>
  /\ lastObjectName = Null
  /\ signals = 0
  /\ timers = 0
  /\ inits = EmptyBag
  /\ navigations = 0
  /\ observers = 0
  /\ pprs = EmptyBag
  /\ inFlight = EmptyBag
  /\ sentCount = [r \in RowIds |-> 0]


(* ------------------------- waiting helpers ---------------------------- *)

\* if (stableCounter >= 3)   (src/script.js:141)
StableChecks == 3
\* setInterval(..., 500)   (src/script.js:149)
IntervalMs == 500
\* setTimeout(..., 5000)   (src/script.js:154)
SafetyMs == 5000
\* The interval firings due by the time the safety timeout is.
SafetyTicks == SafetyMs \div IntervalMs

\* No call of waitForElement yet; the selector matches nothing.
ElementIdle ==
  [pc |-> "idle",          \* the promise: "pending", "resolved", "rejected"
   present |-> FALSE,      \* document.querySelector(selector) finds an element
   observing |-> FALSE,    \* the MutationObserver is connected
   timer |-> FALSE,        \* the setTimeout(..., timeout) has not fired yet
   caller |-> "none"]      \* "awaits", then "continues" or "catch"

\* The handler of setTimeout: observer.disconnect(); reject(...).  reject
\* on a settled promise does nothing.   (src/content.js:1029-1032)
OnTimeout(w) ==
  [w EXCEPT !.timer = FALSE, !.observing = FALSE,
            !.pc = IF @ = "pending" THEN "rejected" ELSE @]

\* await waitForElement(selector) is evaluated.   (src/content.js:1014-1032, 2154)
WaitForElementCalled ==
  /\ elementWait.pc = "idle"
  /\ elementWait' =
       IF elementWait.present
       THEN [elementWait EXCEPT !.pc = "resolved", !.caller = "awaits"]
       ELSE [elementWait EXCEPT !.pc = "pending", !.observing = TRUE,
                                !.timer = TRUE, !.caller = "awaits"]
  /\ UNCHANGED <<pollWait, rowsWait, contentVars, modal, brokerVars, domainVars>>

\* The host inserts an element the selector matches; a connected observer
\* is called back, disconnects and resolves.   (src/content.js:1019-1025)
HostInsertsElement ==
  /\ ~elementWait.present
  /\ elementWait' =
       IF elementWait.observing
       THEN [elementWait EXCEPT !.present = TRUE, !.observing = FALSE,
                                !.pc = "resolved"]
       ELSE [elementWait EXCEPT !.present = TRUE]
  /\ UNCHANGED <<pollWait, rowsWait, contentVars, modal, brokerVars, domainVars>>

\* The host removes the element again.
HostRemovesElement ==
  /\ elementWait.present
  /\ elementWait' = [elementWait EXCEPT !.present = FALSE]
  /\ UNCHANGED <<pollWait, rowsWait, contentVars, modal, brokerVars, domainVars>>

\* The timeout elapses.   (src/content.js:1029-1032)
TimeoutFires ==
  /\ elementWait.timer
  /\ elementWait' = OnTimeout(elementWait)
  /\ UNCHANGED <<pollWait, rowsWait, contentVars, modal, brokerVars, domainVars>>

\* The caller's await resumes: it goes on with the element, or its catch
\* block runs.   (src/content.js:2153-2187)
CallerResumes ==
  /\ elementWait.caller = "awaits"
  /\ elementWait.pc \in {"resolved", "rejected"}
  /\ elementWait' = [elementWait EXCEPT !.caller =
                       IF elementWait.pc = "resolved" THEN "continues" ELSE "catch"]
  /\ UNCHANGED <<pollWait, rowsWait, contentVars, modal, brokerVars, domainVars>>

\* No call of waitForElement(selector, callback) yet.  The function keeps
\* no count of its attempts and no deadline: a call is either waiting on a
\* 500 ms timer or has run its callback.
PollIdle ==
  [pc |-> "idle"]    \* "polling": a setTimeout(..., 500) is set;
                     \* "called": callback(element) has run

\* One look for the element: callback(element) if it is there, else the
\* next look is set 500 ms later.   (src/script.js:118-125)
Poll(w, found) == [w EXCEPT !.pc = IF found THEN "called" ELSE "polling"]

\* waitForElement("table tbody", callback) is called.   (src/script.js:266)
WaitForElementPolled ==
  /\ pollWait.pc = "idle"
  /\ pollWait' = Poll(pollWait, elementWait.present)
  /\ UNCHANGED <<elementWait, rowsWait, contentVars, modal, brokerVars, domainVars>>

\* The 500 ms timer fires and waitForElement runs again: with the element
\* still missing the call is where it was, on a fresh timer.
\* (src/script.js:123)
PollTimer ==
  /\ pollWait.pc = "polling"
  /\ pollWait' = Poll(pollWait, elementWait.present)
  /\ UNCHANGED <<elementWait, rowsWait, contentVars, modal, brokerVars, domainVars>>

\* No call of waitForAllRows yet.
RowsIdle ==
  [pc |-> "idle",
   tableBody |-> FALSE,     \* document.querySelector("table tbody") finds one
   count |-> 0,             \* tableBody.querySelectorAll("tr").length
   lastCount |-> 0, stableCounter |-> 0,
   interval |-> FALSE,      \* the setInterval is active
   timeout |-> FALSE,       \* the safety setTimeout has not fired yet
   ticks |-> 0,             \* firings of the interval so far
   callbacks |-> 0]         \* calls of callback()

\* waitForAllRows(callback) is called.   (src/script.js:128-136, 151)
WaitForAllRowsCalled ==
  /\ rowsWait.pc = "idle"
  /\ rowsWait' =
       IF ~rowsWait.tableBody
       THEN [rowsWait EXCEPT !.pc = "called", !.callbacks = @ + 1]
       ELSE [rowsWait EXCEPT !.pc = "called", !.lastCount = rowsWait.count,
                             !.stableCounter = 0, !.interval = TRUE,
                             !.timeout = TRUE]
  /\ UNCHANGED <<elementWait, pollWait, contentVars, modal, brokerVars, domainVars>>

\* Lazy loading appends a row.
HostLoadsRow ==
  /\ rowsWait.tableBody
  /\ rowsWait.count < NRows
  /\ rowsWait' = [rowsWait EXCEPT !.count = @ + 1]
  /\ UNCHANGED <<elementWait, pollWait, contentVars, modal, brokerVars, domainVars>>

\* The interval fires.   (src/script.js:136-149)
IntervalTick ==
  /\ rowsWait.interval
  /\ rowsWait.ticks < SafetyTicks
  /\ rowsWait' =
       IF rowsWait.count = rowsWait.lastCount
       THEN IF rowsWait.stableCounter + 1 >= StableChecks
            THEN [rowsWait EXCEPT !.ticks = @ + 1, !.stableCounter = @ + 1,
                                  !.interval = FALSE, !.callbacks = @ + 1]
            ELSE [rowsWait EXCEPT !.ticks = @ + 1, !.stableCounter = @ + 1]
       ELSE [rowsWait EXCEPT !.ticks = @ + 1, !.lastCount = rowsWait.count,
                             !.stableCounter = 0]
  /\ UNCHANGED <<elementWait, pollWait, contentVars, modal, brokerVars, domainVars>>

\* The safety timeout fires, after the interval firings due before it (the
\* last of them is due at the same time): clearInterval(interval);
\* callback().   (src/script.js:151-154)
SafetyTimeout ==
  /\ rowsWait.timeout
  /\ rowsWait.interval => rowsWait.ticks >= SafetyTicks - 1
  /\ rowsWait' = [rowsWait EXCEPT !.timeout = FALSE, !.interval = FALSE,
                                  !.callbacks = @ + 1]
  /\ UNCHANGED <<elementWait, pollWait, contentVars, modal, brokerVars, domainVars>>

WaitsNext ==
  \/ WaitForElementCalled
  \/ HostInsertsElement
  \/ HostRemovesElement
  \/ TimeoutFires
  \/ CallerResumes
  \/ WaitForElementPolled
  \/ PollTimer
  \/ WaitForAllRowsCalled
  \/ HostLoadsRow
  \/ IntervalTick
  \/ SafetyTimeout

WaitsInit ==
  /\ \E found \in BOOLEAN : elementWait = [ElementIdle EXCEPT !.present = found]
  /\ pollWait = PollIdle
  /\ \E found \in BOOLEAN : rowsWait = [RowsIdle EXCEPT !.tableBody = found]

\* No waiting helper has been called.
WaitsAtRest ==
  /\ elementWait = ElementIdle
  /\ pollWait = PollIdle
  /\ rowsWait = RowsIdle

PageNext ==
  \/ HostShowTable
  \/ HostShowSearch
  \/ \E r \in RowIds : HostAddRow(r)
  \/ \E v \in QueryValues : UserInput(v)
  \/ InitStart
  \/ \E c \in BagToSet(inits) : InitNamed(c)
  \/ \E c \in BagToSet(inits) : InitTableFound(c)
  \/ \E c \in BagToSet(inits) : InitScrolled(c)
  \/ \E c \in BagToSet(inits) : InitTimeout(c)
  \/ \E c \in BagToSet(inits) : InitHomeTableFound(c)
  \/ \E c \in BagToSet(inits) : InitHomeFinish(c)
  \/ \E c \in BagToSet(pprs) : PprResume(c)
  \/ \E req \in BagToSet(inFlight) : Deliver(req)

\* The steps of the page with in-place navigation of the host.
ReinitNext ==
  \/ PageNext
  \/ \E p \in Paths : Navigate(p)
  \/ LocationChanged

\* The steps of the page re-initialised while it shows the same page.
SamePageNext ==
  \/ PageNext
  \/ HistoryUpdated
  \/ LocationChanged

\* The page shows no setup page and the content script has not started.
PageAtRest ==
  /\ modal = ModalIdle
  /\ pathname = PathList
  /\ tableBody = FALSE
  /\ rows = [r \in RowIds |-> FreshRow]
  /\ searchInput = NoInput
  /\ qfValue = <<>>
  /\ lastObjectName = Null
  /\ signals = 0
  /\ timers = 0
  /\ inits = EmptyBag
  /\ navigations = 0
  /\ observers = 0
  /\ pprs = EmptyBag
  /\ inFlight = EmptyBag
  /\ sentCount = [r \in RowIds |-> 0]

InitPage == PageInit /\ WaitsAtRest /\ BrokerAtRest /\ DomainsAtRest
InitBroker == BrokerInit /\ PageAtRest /\ WaitsAtRest /\ DomainsAtRest
InitDomains == DomainsInit /\ BrokerAtRest /\ PageAtRest /\ WaitsAtRest
InitReinit == PageInit /\ WaitsAtRest /\ DomainsAtRest /\ BrokerAtRest
InitSamePage == PageInit /\ WaitsAtRest /\ BrokerAtRest /\ DomainsAtRest
InitModal == ModalInit /\ WaitsAtRest /\ BrokerAtRest /\ DomainsAtRest
InitConcurrent == ConcurrentInit /\ PageAtRest /\ WaitsAtRest /\ DomainsAtRest
InitWaits == WaitsInit /\ PageAtRest /\ BrokerAtRest /\ DomainsAtRest

\* The content script on the page it was loaded into, the Broker's replies
\* chosen freely.
SpecPage == InitPage /\ [][PageNext]_vars

\* The content script while the host navigates in place.
SpecReinit == InitReinit /\ [][ReinitNext]_vars

\* The content script re-initialised on the page it was loaded into.
SpecSamePage == InitSamePage /\ [][SamePageNext]_vars

\* The waiting helpers; a timer that is due fires and the continuation of a
\* settled promise runs.
SpecWaits ==
  /\ InitWaits
  /\ [][WaitsNext]_vars
  /\ WF_vars(TimeoutFires)
  /\ WF_vars(CallerResumes)
  /\ WF_vars(PollTimer)

\* One call of openBulkUpdateModal, the responses chosen freely.
SpecModal == InitModal /\ [][ModalNext]_vars

\* The service worker resolving requests one after the other.
SpecBroker == InitBroker /\ [][BrokerNext]_vars

\* The service worker with the requests of two tabs under way at once.
SpecConcurrent == InitConcurrent /\ [][ConcurrentNext]_vars

\* The domain helpers applied to one origin.
SpecDomains == InitDomains /\ [][DomainsNext]_vars

(***************************************************************************)
(* Properties of the domain helpers.                                       *)
(***************************************************************************)

\* The origin under test has the form https://<org>--<sandbox>.lightning.force.com.
SandboxForm == sandboxLabel # <<>> /\ hostSuffix = LightningSuffix

\* The generic fallback domains.
GenericFallbacks ==
  { Url(MySalesforceSuffix),
    Url(<<"login", ".", "salesforce", ".", "com">>),
    Url(<<"salesforce", ".", "com">>),
    Url(<<"cloudforce", ".", "com">>),
    Url(<<"sandbox", ".">> \o MySalesforceSuffix) }

\* C7: for an origin https://<org>--<sandbox>.lightning.force.com the
\* candidate list starts with https://<org>--<sandbox>.my.salesforce.com,
\* has no duplicate, and has every generic fallback domain after all the
\* other candidates.
C7_DomainFallbackOrder ==
  (candidates # <<>> /\ SandboxForm) =>
     /\ candidates[1] =
          Url(orgLabel \o <<"-", "-">> \o sandboxLabel \o <<".">> \o MySalesforceSuffix)
     /\ \A i, j \in 1..Len(candidates) : candidates[i] = candidates[j] => i = j
     /\ \A d \in GenericFallbacks : \E i \in 1..Len(candidates) : candidates[i] = d
     /\ \A i, j \in 1..Len(candidates) :
           (candidates[i] \in GenericFallbacks /\ candidates[j] \notin GenericFallbacks
              /\ candidates[j] # Url(<<"test", ".", "salesforce", ".", "com">>))
           => j < i

\* C12: for an identifier ending in "__c", stripping the suffix twice gives
\* the name stripping it once gives.
C12_StripIdempotent ==
  (Len(developerNames) >= 3 /\ EndsWith(developerNames[1], CustomSuffix)) =>
     developerNames[3] = developerNames[2]

(***************************************************************************)
(* Properties of the Broker.                                               *)
(***************************************************************************)

\* The reply of the request at hand.
TheReply == proc.replies[1]

\* The handler of the request at hand has run to its end.
Resolved == proc.pc = "done"

\* C2: the Broker calls the reply function exactly once per request of a
\* kind it handles: no reply before the handler is through, one when it is,
\* never a second.
C2_ReplyExactlyOnce ==
  proc.kind \in Kinds =>
    /\ proc.pc \in {"cookie", "cookieAll", "http", "done"}
    /\ Len(proc.replies) <= 1
    /\ Resolved <=> Len(proc.replies) = 1

\* C2 witness: a getCustomFieldId request that went through the object
\* query and the second field query has been answered once.
C2_Witness ==
  /\ Resolved
  /\ proc.kind = "getCustomFieldId"
  /\ \E i \in 1..Len(proc.calls) : proc.calls[i] = "objectId"
  /\ Len(proc.calls) = 3
  /\ Len(proc.replies) = 1

\* The reply has the shape {success: false, error: <message>}.
FailureReply(reply) == ~reply.success /\ reply.error # ""

\* Call sites whose failure is logged and swallowed: the enrichment batches
\* of fetchObjectDescribe and the supplementary query of getFieldMetadata.
AuxiliarySites == {"enrich", "fieldExtra"}

\* C3 as stated: whenever a network failure, a non-2xx response or a
\* malformed payload was met while resolving a request, the reply is
\* {success: false, error: <message>}.
C3_EveryFailureReported ==
  (Resolved /\ proc.met # {}) =>
     (Len(proc.replies) = 1 /\ FailureReply(TheReply))

\* C3 amended: a failure met at a call other than an enrichment batch or the
\* supplementary field query ends in exactly one reply of the shape
\* {success: false, error: <message>}; failures met only at those auxiliary
\* calls are swallowed and an object-describe request still gets its one
\* success reply.
C3_PrimaryFailureReported ==
  Resolved =>
     /\ Len(proc.replies) = 1
     /\ (proc.met \ AuxiliarySites # {}) => FailureReply(TheReply)
     /\ (proc.kind = "fetchObjectDescribe" /\ proc.met # {}
           /\ proc.met \subseteq AuxiliarySites) => TheReply.success

\* C3 witness: a picklist request whose fetch hit a network error has its
\* failure reply.
C3_Witness ==
  /\ Resolved
  /\ proc.kind = "fetchPicklistValues"
  /\ proc.met = {"describe"}
  /\ Len(proc.replies) = 1
  /\ TheReply = Reply(FALSE, "Failed to fetch")

\* The kinds that call the remote API for the request itself.
ApiKinds ==
  { "fetchPicklistValues", "fetchObjectDescribe", "fetchCustomObjectApiName",
    "getCustomFieldId" }

\* The cookie store has no sid token for any candidate domain of the origin.
NoCandidateToken ==
  LET domainsToTry == DomainsToTry[proc.origin]
  IN  \A i \in 1..Len(domainsToTry) : CookieValue(cookies, domainsToTry[i]) = ""

CredentialMissing ==
  /\ Len(proc.replies) = 1
  /\ TheReply = Reply(FALSE, "No session cookie found.")
  /\ proc.calls = <<>>

\* C6 as stated: when the store has no token for any candidate domain of
\* the origin, the request ends with the reply "No session cookie found."
\* and without any outbound HTTP call.
C6_NoCandidateTokenMissing ==
  (Resolved /\ proc.kind \in ApiKinds /\ NoCandidateToken) => CredentialMissing

\* C6 amended: when the store holds no sid cookie at all, the request ends
\* with the reply "No session cookie found." and without any outbound HTTP
\* call; and whatever the store, an HTTP call is only made with a session id
\* found for this request.
C6_NoTokenMissing ==
  /\ (Resolved /\ proc.kind \in ApiKinds /\ SidCookies(cookies) = <<>>)
        => CredentialMissing
  /\ proc.calls # <<>> => proc.sessionId # ""
  /\ SidCookies(cookies) = <<>> => proc.calls = <<>>

\* C6 witness: a picklist request ended in "No session cookie found." with a
\* store that has cookies but no sid cookie.
C6_Witness ==
  /\ Resolved
  /\ proc.kind = "fetchPicklistValues"
  /\ cookies = <<CookieLang>>
  /\ CredentialMissing

\* The fields of the request at hand whose PATCH was sent and accepted.
Patched == {proc.patches[k].field : k \in {i \in 1..Len(proc.patches) : proc.patches[i].accepted}}

\* C8: when a bulkUpdateFields request is answered every field has been
\* attempted, a field counts as succeeded exactly when its PATCH was sent
\* and accepted, and a reply that reports failures reports the number of
\* succeeded and of failed fields, whatever the position of the failures.
C8_PartialBatchIndependence ==
  (Resolved /\ proc.kind = "bulkUpdateFields") =>
     /\ Len(proc.results) = proc.nFields
     /\ \A i \in 1..Len(proc.results) : proc.results[i].success <=> i \in Patched
     /\ (Cardinality(Patched) < proc.nFields) =>
           /\ ~TheReply.success
           /\ TheReply.successCount = Cardinality(Patched)
           /\ TheReply.failureCount = proc.nFields - Cardinality(Patched)

\* C8 witness: the first field failed, the second was patched, and the reply
\* counts one success and one failure.
C8_Witness ==
  /\ Resolved
  /\ proc.kind = "bulkUpdateFields"
  /\ proc.nFields = 2
  /\ ~proc.results[1].success
  /\ proc.results[2].success
  /\ Patched = {2}
  /\ TheReply.successCount = 1
  /\ TheReply.failureCount = 1

\* The fields the specification puts in the direct-update category.
DirectCategory(metadata) ==
  \/ LowerTypeName(metadata.type) \in
        {"picklist", "multipicklist", "lookup", "reference", "masterdetail"}
  \/ metadata.valueSet

\* C9: the PATCH for a field that is a picklist, a multipicklist, lookup-like
\* or has a value set carries only the changed properties, never the full
\* Metadata object.
C9_DirectUpdateSelection ==
  [][ (Len(proc'.patches) > Len(proc.patches) /\ DirectCategory(proc.fieldData)) =>
        LET body == proc'.patches[Len(proc'.patches)].body
        IN  ~body.fullMetadata /\ body.properties = UpdatedData(proc, proc.field) ]_vars

\* The picklist text the specification gives for each describe body.
ExpectedStandardText(data) ==
  CASE data = DescribeIndustry ->
         <<"b","a","n","k","i","n","g",","," ","r","e","t","a","i","l">>
    [] data = DescribeUpperCase ->
         <<"r","e","t","a","i","l",","," ",","," ","b","a","n","k","i","n","g">>
    [] OTHER -> <<>>

\* C10: a standard-field request that got a describe body is answered
\* {success: true} with the lower-cased labels of the field's picklist
\* values joined with ", " in payload order, and with the empty text when
\* the field is not in the body or has no picklist values.
C10_StandardFieldText ==
  (Resolved /\ proc.kind = "fetchPicklistValues" /\ proc.isStandard
     /\ proc.describe.hasFields) =>
     /\ Len(proc.replies) = 1
     /\ TheReply.success
     /\ TheReply.picklistText = ExpectedStandardText(proc.describe)

\* C10 witness: the describe body lists Industry with Banking and Retail and
\* the reply carries "banking, retail".
C10_Witness ==
  /\ Resolved
  /\ proc.isStandard
  /\ proc.describe = DescribeIndustry
  /\ TheReply.success
  /\ TheReply.picklistText =
       <<"b","a","n","k","i","n","g",","," ","r","e","t","a","i","l">>

\* C11: a custom-field request whose tooling query succeeded with a body
\* that has no records, or lacks a link of
\* records[0].Metadata.valueSet.valueSetDefinition.value, is answered
\* {success: true} with the empty picklist text.
C11_CustomAbsenceNotError ==
  (Resolved /\ proc.kind = "fetchPicklistValues" /\ ~proc.isStandard
     /\ proc.tooling.missing \in MissingLinks) =>
     /\ Len(proc.replies) = 1
     /\ TheReply.success
     /\ TheReply.error = ""
     /\ TheReply.picklistText = <<>>

\* C11 witness: the query for a custom field came back without records and
\* the request was answered with success and no text.
C11_Witness ==
  /\ Resolved
  /\ proc.kind = "fetchPicklistValues"
  /\ ~proc.isStandard
  /\ proc.calls = <<"toolingPicklist">>
  /\ proc.tooling.missing = "records[0]"
  /\ TheReply.success
  /\ TheReply.picklistText = <<>>

\* This step ends a fetchObjectDescribe request in its enrichment loop.
EnrichmentEnds ==
  /\ proc.kind = "fetchObjectDescribe"
  /\ proc.pc = "http" /\ proc.site = "enrich"
  /\ proc'.pc = "done"

\* C17: a fetchObjectDescribe request whose describe call succeeded ends
\* with a success reply only after every batch was asked for, whatever the
\* outcome of a batch, and the reply carries the enrichment of every batch
\* that was obtained before.
C17_BatchIsolation ==
  [][ EnrichmentEnds =>
        /\ Len(proc'.replies) = 1
        /\ proc'.replies[1].success
        /\ proc.batch = proc.nBatches
        /\ proc.enriched \subseteq proc'.replies[1].enriched ]_vars

\* The position in the candidate list of the first domain the store has a
\* sid token for; 0 when it has one for none.
FirstCandidate ==
  LET domainsToTry == DomainsToTry[proc.origin]
      hits == {i \in 1..Len(domainsToTry) : CookieValue(cookies, domainsToTry[i]) # ""}
  IN  IF hits = {} THEN 0 ELSE CHOOSE i \in hits : \A j \in hits : i <= j

\* The token the store has for the first such candidate.
FirstToken == CookieValue(cookies, DomainsToTry[proc.origin][FirstCandidate])

\* C20: the candidate loop never goes past the first candidate the store
\* has a token for, the enumerate-all fallback runs only when it has a
\* token for none, and the token a resolution returns is that candidate's.
C20_FirstSuccessStop ==
  proc.pc \in {"cookie", "cookieAll", "http", "done"} =>
    LET first == FirstCandidate
    IN  /\ (proc.pc = "cookie" /\ first # 0) => proc.cand <= first
        /\ proc.pc = "cookieAll" => first = 0
        /\ (first # 0 /\ proc.pc \in {"http", "done"} /\ proc.cand > 0) =>
              /\ proc.cand = first
              /\ lastSuccessfulCookieDomain = DomainsToTry[proc.origin][first]
              /\ IF proc.kind = "getSessionCookie"
                 THEN Len(proc.replies) = 1 /\ TheReply.cookieValue = FirstToken
                 ELSE proc.sessionId = FirstToken

\* C20 witness: for https://globex.lightning.force.com the store has a token
\* at the second candidate and another at a later one; the request was
\* answered with the token of the second.
C20_Witness ==
  /\ Resolved
  /\ proc.kind = "getSessionCookie"
  /\ proc.origin = OriginB
  /\ cookies = <<CookieTest, CookieB>>
  /\ FirstCandidate = 2
  /\ proc.cand = 2
  /\ TheReply.cookieValue = "sidB"

\* The listener, and the handler it started if any, are through with the
\* request at hand.
ListenerThrough == proc.pc \in {"done", "closed"}

\* C18: every request the content script sends, whatever its kind, has got
\* exactly one response when the Broker is through with it, and never more.
C18_EveryRequestAnswered ==
  /\ Len(proc.replies) <= 1
  /\ ListenerThrough => Len(proc.replies) = 1

(***************************************************************************)
(* Properties of the Page Agent.                                           *)
(***************************************************************************)

\* A row element processPicklistRows would send a request for: attached,
\* three cells or more, a type cell that says picklist.
AttachedPicklistRow(rs, r) ==
  /\ InTable(rs, r)
  /\ Len(RowCells(r)) >= 3
  /\ IsPicklistRow(r)

\* /lightning/setup/ObjectManager/<X>/... with X an object, not the home page.
ObjectManagerDetail(p) ==
  /\ Includes(p, <<"/","ObjectManager","/">>)
  /\ ~isObjectManagerHomePage(p)

\* This step is the run of one processPicklistRows call past its await.
PassReturns == BagCardinality(pprs') < BagCardinality(pprs)

\* C1: on an Object Manager detail page, no row is ever requested twice, and
\* when a row-processing pass returns, every attached picklist row has had
\* its fetchPicklistValues request sent exactly once and carries the fetched
\* mark, the mark being set in the step that sends the request.
C1_FetchExactlyOnce ==
  [][ /\ \A r \in RowIds : sentCount'[r] <= 1
      /\ \A r \in RowIds :
            (sentCount'[r] # sentCount[r]) =>
               (~rows[r].picklistFetched /\ rows'[r].picklistFetched)
      /\ (PassReturns /\ ObjectManagerDetail(pathname)) =>
            \A r \in RowIds :
               AttachedPicklistRow(rows, r) =>
                  (sentCount'[r] = 1 /\ rows'[r].picklistFetched) ]_vars

\* This step is the callback of req handling a successful response.
SuccessHandled(req) ==
  /\ BagIn(req, inFlight)
  /\ inFlight' = Remove(inFlight, req)
  /\ ~rows[req.row].hasText
  /\ rows'[req.row].hasText

\* C4: when a successful response is handled while the custom quick-find
\* input holds query Q, then right after it every attached row with three
\* cells or more (the row of the response and all the others) is visible
\* exactly when it matches Q on its state after the response.
C4_FilterReevaluated ==
  [][ \A req \in BagToSet(inFlight) :
        (SuccessHandled(req) /\ searchInput.kind = "custom") =>
           \A r \in RowIds :
              (InTable(rows', r) /\ Len(RowCells(r)) >= 3) =>
                 ((rows'[r].display = "") <=>
                    RowMatches(ToLowerCase(Trim(qfValue)), r, rows'[r].picklistText)) ]_vars

\* C4 witness: query "y b" is in the custom input, the text of row 1 has
\* arrived and matches it, row 1 is shown and row 2 is hidden.
C4_Witness ==
  /\ searchInput.kind = "custom"
  /\ qfValue = <<" ","Y"," ","b">>
  /\ InTable(rows, 1) /\ InTable(rows, 2)
  /\ rows[1].hasText
  /\ rows[1].picklistText = BrokerText(Trim(RowCells(1)[2]))
  /\ rows[1].display = ""
  /\ rows[2].display = "none"

\* C5: the picklist text a row carries is the text answered for that row's
\* own field, and a row carries text only once its own request was sent and
\* answered, whatever the order the responses come in.
C5_ResponseCorrelation ==
  \A r \in RowIds :
     (rows[r].hasText /\ Len(RowCells(r)) >= 3 /\ IsPicklistRow(r)) =>
        /\ rows[r].picklistText = BrokerText(Trim(RowCells(r)[2]))
        /\ sentCount[r] >= 1
        /\ \A req \in BagToSet(inFlight) : req.row # r

\* C5 witness: two requests were outstanding and the later one was answered
\* first: row 2 carries its text while the request of row 1 is in flight.
C5_Witness ==
  /\ rows[2].hasText
  /\ rows[2].picklistText = BrokerText(Trim(RowCells(2)[2]))
  /\ ~rows[1].hasText
  /\ \E req \in BagToSet(inFlight) : req.row = 1

\* An initialisation that runs after a navigation has its object name and
\* is past the teardown.
PastTeardown(c) ==
  /\ navigations > 0
  /\ c.pc \in {"table", "scroll"}
  /\ c.name # Null

\* The custom quick-find input in the document was set up for another
\* object than name.
StaleQuickFind(input, name) ==
  /\ input.kind = "custom"
  /\ input.forObject # Null
  /\ input.forObject # name

\* C13: handling a navigation signal clears the object marker, and the
\* initialisation it starts for object B, once past its teardown, has left
\* no custom quick-find input that was set up for another object A.
C13_ReinitTearsDown ==
  [][ /\ signals' < signals => lastObjectName' = Null
      /\ \A c \in BagToSet(inits') :
            PastTeardown(c)' => ~StaleQuickFind(searchInput', c.name) ]_vars

\* C14: every in-place change of the URL while the page is a setup page
\* fires a navigation signal, and every signal handled schedules
\* initPicklistProcessing.
C14_NavigationDetected ==
  [][ /\ (pathname' # pathname /\ Includes(pathname, SetupMarker)) =>
            signals' = signals + 1
      /\ signals' < signals => timers' = timers + 1 ]_vars

\* This step is the input listener running with the query typed.
FilterRuns == qfValue' # qfValue /\ searchInput'.kind = "custom" /\ tableBody

\* t is a contiguous part of s.
Substring(t, s) ==
  \E i \in 1..(Len(s) - Len(t) + 1) : \A k \in 1..Len(t) : s[i + k - 1] = t[k]

\* The rows the filter decides on: in the table, with three cells or more.
Filtered(rs, r) == rs[r].status = "attached" /\ Len(RowCells(r)) >= 3

\* Row r is visible exactly when the query q is empty or part of the
\* lower-cased text, identifier or type.
VisibleIff(rs, r, q, text) ==
  (rs[r].display = "") <=>
     \/ q = <<>>
     \/ Substring(q, ToLowerCase(text))
     \/ Substring(q, ToLowerCase(RowCells(r)[2]))
     \/ Substring(q, ToLowerCase(RowCells(r)[3]))

ObjectOfPath(p) ==
  decodeURIComponent(p[IndexOf(p, <<"/","ObjectManager","/">>) + 3])

\* C19: on /lightning/setup/ObjectManager/<X>/... every processPicklistRows
\* call that awaits the object identifier gets the decoded X, and every
\* fetchPicklistValues request in flight carries it.
C19_IdentifierFromPath ==
  ObjectManagerDetail(pathname) =>
    /\ \A c \in BagToSet(pprs) : c.name = ObjectOfPath(pathname)
    /\ \A req \in BagToSet(inFlight) : req.objectName = ObjectOfPath(pathname)


\* C15: the content script issues no HTTP call to the remote metadata API
\* itself; what it gets from there it gets through messages to the Broker.
C15_BrokerOnlyAccess == modal.fetches = <<>>


(***************************************************************************)
(* Properties of the enumerate-all fallback and of the domain cache.       *)
(***************************************************************************)

\* The callback of chrome.cookies.getAll runs in this step.
ListingReturns == proc.pc = "cookieAll" /\ proc'.pc # "cookieAll"

\* The token the request at hand holds after its credential resolution: the
\* cookieValue of the reply for getSessionCookie, the sessionId otherwise.
TokenHeld(p) ==
  IF p.kind = "getSessionCookie" THEN p.replies[1].cookieValue ELSE p.sessionId

\* The positions of the sid cookies in the store, and of those whose domain
\* contains or is contained in the host name of the origin.
SidPositions == {i \in 1..Len(cookies) : cookies[i].name = "sid"}
MatchingPositions ==
  {i \in SidPositions : \/ Includes(Hostname(proc.origin), cookies[i].domain)
                        \/ Includes(cookies[i].domain, Hostname(proc.origin))}
Least(S) == CHOOSE i \in S : \A j \in S : i <= j

\* C21: the store is enumerated only when no candidate domain yields a
\* token; the enumeration returns the first sid cookie whose domain contains
\* or is contained in the origin's host name, else the first sid cookie, and
\* when there is no sid cookie at all the resolution returns no token.
C21_EnumerateAllFallback ==
  [][ ListingReturns =>
        /\ NoCandidateToken
        /\ TokenHeld(proc') =
             IF MatchingPositions # {} THEN cookies[Least(MatchingPositions)].value
             ELSE IF SidPositions # {} THEN cookies[Least(SidPositions)].value
             ELSE ""
        /\ SidPositions = {} =>
             /\ proc'.calls = proc.calls
             /\ proc.kind \in ApiKinds =>
                  proc'.replies = <<Reply(FALSE, "No session cookie found.")>>
             /\ proc.kind = "bulkUpdateFields" =>
                  ~proc'.results[Len(proc'.results)].success ]_vars

\* C21 witness: a picklist request from the globex origin found no token at
\* any candidate domain; of the two sid cookies listed the second, stored
\* for force.com, is contained in the host name and its token is in use.
C21_Witness ==
  /\ proc.kind = "fetchPicklistValues"
  /\ proc.origin = OriginB
  /\ cookies = <<CookieOther, CookieForce>>
  /\ proc.pc = "http"
  /\ proc.sessionId = "sidF"
  /\ lastSuccessfulCookieDomain = Url(CookieForce.domain)

FailedFields == {i \in 1..Len(proc.results) : ~proc.results[i].success}

\* C23: a bulkUpdateFields request attempts each key of updates exactly
\* once and in key order; when it is answered the succeeded and the failed
\* fields add up to the number of keys, the reply's success flag is true
\* exactly when no field failed, and a reply that reports failures carries
\* successCount, failureCount and one formatted error line per failed field.
C23_BulkAggregation ==
  proc.kind = "bulkUpdateFields" =>
    /\ \A i \in 1..Len(proc.results) : proc.results[i].fieldId = i
    /\ ~Resolved => Len(proc.results) = proc.field - 1
    /\ Resolved =>
         /\ Len(proc.results) = proc.nFields
         /\ TheReply.success <=> FailedFields = {}
         /\ FailedFields # {} =>
              /\ TheReply.failureCount = Cardinality(FailedFields)
              /\ TheReply.successCount + TheReply.failureCount = proc.nFields
              /\ Len(TheReply.formattedErrorMessage) = Cardinality(FailedFields)
              /\ {TheReply.formattedErrorMessage[k].fieldId :
                    k \in 1..Len(TheReply.formattedErrorMessage)} = FailedFields

\* C23 witness: both fields of a bulk update failed and the reply counts no
\* success, two failures and has a line for each.
C23_Witness ==
  /\ Resolved
  /\ proc.kind = "bulkUpdateFields"
  /\ proc.nFields = 2
  /\ FailedFields = {1, 2}
  /\ ~TheReply.success
  /\ TheReply.successCount = 0
  /\ TheReply.failureCount = 2
  /\ Len(TheReply.formattedErrorMessage) = 2

\* C27: when the user saves the dialog the Broker sends a PATCH only for the
\* fields whose description or help text was edited; a field that was not
\* edited is neither fetched nor patched and has no entry in the results.
C27_OnlyEditedFields ==
  proc.kind = "bulkUpdateFields" =>
    /\ proc.pc = "http" => proc.field \in proc.edited
    /\ \A k \in 1..Len(proc.patches) : proc.patches[k].field \in proc.edited
    /\ \A i \in 1..Len(proc.results) : proc.results[i].fieldId \in proc.edited

(***************************************************************************)
(* Properties of requests under way at once.                               *)
(***************************************************************************)

\* The candidate position at which a resolution for the origin finds its
\* token, 0 when no candidate has one.
TokenCandidate(origin) ==
  LET hits == {i \in 1..Len(DomainsToTry[origin]) :
                 CookieValue(cookies, DomainsToTry[origin][i]) # ""}
  IN  IF hits = {} THEN 0 ELSE Least(hits)

\* The domain for which a resolution for the origin finds its token, and
\* that token.
TokenDomain(origin) ==
  IF TokenCandidate(origin) # 0 THEN DomainsToTry[origin][TokenCandidate(origin)]
  ELSE Url(FallbackCookie(SidCookies(cookies), origin).domain)
TokenOf(origin) ==
  IF TokenCandidate(origin) # 0
  THEN CookieValue(cookies, DomainsToTry[origin][TokenCandidate(origin)])
  ELSE FallbackCookie(SidCookies(cookies), origin).value

\* C29: whatever the interleaving of requests from different origins, the
\* API origin of a request's HTTP calls is the domain for which that
\* request's own credential resolution found its token, and the bearer token
\* sent there is the one found for that domain.
C29_TokenDomainPaired ==
  \A h \in Tabs :
    handlers[h].calls # <<>> =>
      /\ handlers[h].apiOrigin = TokenDomain(handlers[h].origin)
      /\ handlers[h].sessionId = TokenOf(handlers[h].origin)

\* C29 witness: the requests of two tabs on different orgs both wait on an
\* HTTP call, each at the domain of its own token, after the second
\* overwrote the domain the first had stored.
C29_Witness ==
  /\ handlers["tabA"].pc = "http"
  /\ handlers["tabB"].pc = "http"
  /\ handlers["tabA"].origin = OriginA
  /\ handlers["tabB"].origin = OriginB
  /\ handlers["tabA"].apiOrigin = Url(CookieA.domain)
  /\ handlers["tabB"].apiOrigin = Url(CookieB.domain)
  /\ handlers["tabA"].sessionId = "sidA"
  /\ handlers["tabB"].sessionId = "sidB"
  /\ lastSuccessfulCookieDomain = Url(CookieB.domain)

(***************************************************************************)
(* Further properties of the Page Agent.                                   *)
(***************************************************************************)

\* The callback of req runs in this step with a failure or without a
\* response: the request is gone and its row still has no picklist text.
FailureHandled(req) ==
  /\ BagIn(req, inFlight)
  /\ inFlight' = Remove(inFlight, req)
  /\ ~rows'[CallbackRow(req)].hasText

\* C24: a failed or missing response for a row's fetchPicklistValues
\* request leaves the row's picklist text absent and the visibility of
\* every row as it was, and no second request is ever sent for a row.
C24_FailureTerminal ==
  [][ /\ \A req \in BagToSet(inFlight) : FailureHandled(req) => rows' = rows
      /\ \A r \in RowIds : sentCount'[r] <= 1 ]_vars

\* C24 witness: the request of row 1 failed (sent, answered, no text); a
\* later pass took row 2 and sent its request without asking again for
\* row 1.
C24_Witness ==
  /\ sentCount[1] = 1
  /\ rows[1].picklistFetched
  /\ ~rows[1].hasText
  /\ \A req \in BagToSet(inFlight) : req.row # 1
  /\ InTable(rows, 2)
  /\ ~InTable(rows, 3)
  /\ sentCount[2] = 1
  /\ pprs = EmptyBag

\* C28: whatever the interleaving of query edits, rows being added and
\* responses arriving, every attached row with at least three cells is
\* shown exactly when it matches the query in the custom quick-find input:
\* running the filter again would change no row.
C28_VisibilityInvariant ==
  (searchInput.kind = "custom" /\ tableBody) =>
     \A r \in RowIds :
       (InTable(rows, r) /\ Len(RowCells(r)) >= 3) =>
          rows[r].display = onQuickFindInput(qfValue, rows)[r].display

\* The initialisation that resumes in this step found another object than
\* the one noted before.
ObjectChanged ==
  /\ lastObjectName # Null
  /\ lastObjectName' # Null
  /\ lastObjectName' # lastObjectName

Settled == elementWait.pc \in {"resolved", "rejected"}

\* A call of the promise revision settles.  It resolves when the element
\* is there at the call or is inserted while the observer is connected; the
\* observer is connected only while the timeout has not fired, and the
\* timeout disconnects it and leaves the promise settled; a pending call is
\* settled in the end, and a rejected one ends in the caller's catch block.
PromiseWaitSettles ==
  /\ [](elementWait.observing => (elementWait.timer /\ elementWait.pc = "pending"))
  /\ [][ /\ (elementWait.pc = "idle" /\ elementWait.present) =>
              elementWait'.pc \in {"idle", "resolved"}
         /\ (elementWait.pc = "pending" /\ ~elementWait.present
               /\ elementWait'.present) => elementWait'.pc = "resolved"
         /\ (elementWait.timer /\ ~elementWait'.timer) =>
              (~elementWait'.observing /\ elementWait'.pc \in {"resolved", "rejected"})
         /\ Settled => elementWait'.pc = elementWait.pc ]_vars
  /\ (elementWait.pc = "pending") ~> Settled
  /\ (elementWait.pc = "rejected") ~> (elementWait.caller = "catch")

\* A call of the callback revision stops polling.
CallbackWaitSettles == (pollWait.pc = "polling") ~> (pollWait.pc = "called")

\* C25: every call of waitForElement settles: it resolves with the element
\* when that is present at the call or appears before the timeout, else it
\* stops observing and rejects at the timeout; no call keeps polling or
\* observing without bound, and a missing element ends in the caller's
\* error handling.
C25_BoundedWait ==
  /\ PromiseWaitSettles
  /\ CallbackWaitSettles

\* The waitForAllRows call has no timer left.
RowsWaitOver ==
  /\ rowsWait.pc = "called"
  /\ ~rowsWait.interval
  /\ ~rowsWait.timeout

\* C30: waitForAllRows invokes its callback exactly once per call, at the
\* third stable check or at the safety timeout, whichever is first.
C30_CallbackOnce ==
  /\ rowsWait.callbacks <= 1
  /\ RowsWaitOver => rowsWait.callbacks = 1
====
